---- MODULE Spec2Model ----
(***************************************************************************)
(* A model of monet: the layer store (canvas.py), the response parser      *)
(* (response_parser.py), the renderer boundary (renderer.py), the session  *)
(* driver run_drawing_session (orchestrator.py) and the MCP tool server    *)
(* (mcp_server.py).                                                        *)
(*                                                                         *)
(* Text is modelled as a sequence of tokens: a token is a tag of the       *)
(* response grammar, a run of whitespace, or a word of markup.  Python's   *)
(* None is the empty tuple and a present optional value v is <<v>>.        *)
(* A layer id "layer-k" is the number k.                                   *)
(***************************************************************************)
EXTENDS Integers, Sequences, FiniteSets, TLC

(***************************************************************************)
(* Bounds of the model.                                                    *)
(***************************************************************************)
MaxIterations == 4
MaxCalls == 5
MaxSegments == 3

(***************************************************************************)
(* Program constants.                                                      *)
(***************************************************************************)
EmptyStreakLimit == 3
FirstLayer == 1
ExportScale == 2

(***************************************************************************)
(* Tokens and strings.                                                     *)
(***************************************************************************)
Open(t) == [k |-> "open", v |-> t, id |-> 0]
Close(t) == [k |-> "close", v |-> t, id |-> 0]
ReplaceOpen(n) == [k |-> "open-id", v |-> "replace-layer", id |-> n]
GroupOpen(n) == [k |-> "open-id", v |-> "g", id |-> n]
Word(w) == [k |-> "word", v |-> w, id |-> 0]
Space == [k |-> "ws", v |-> " ", id |-> 0]

None == << >>
Some(x) == << x >>

\* str.strip(): leading and trailing whitespace removed
RECURSIVE lstrip(_)
lstrip(s) == IF s # << >> /\ Head(s) = Space THEN lstrip(Tail(s)) ELSE s

RECURSIVE rstrip(_)
rstrip(s) ==
    IF s # << >> /\ s[Len(s)] = Space THEN rstrip(SubSeq(s, 1, Len(s) - 1)) ELSE s

strip(s) == rstrip(lstrip(s))

\* a lower() that leaves the word as it is
lower_identity(w) == w

\* str.lower() on the words of the vocabulary
lower(w) ==
    CASE w = "DONE" -> "done"
      [] w = "Done" -> "done"
      [] w = "Complete" -> "complete"
      [] w = "FINISHED" -> "finished"
      [] OTHER -> w

RECURSIVE Concat(_)
Concat(ss) == IF ss = << >> THEN << >> ELSE Head(ss) \o Concat(Tail(ss))

\* sep.join(ss)
RECURSIVE join(_, _)
join(sep, ss) ==
    IF ss = << >> THEN << >>
    ELSE IF Len(ss) = 1 THEN ss[1]
    ELSE ss[1] \o sep \o join(sep, Tail(ss))

Min(S) == CHOOSE x \in S : \A y \in S : x <= y
Range(s) == {s[i] : i \in 1..Len(s)}
Last(s) == s[Len(s)]

(***************************************************************************)
(* response_parser.py                                                      *)
(***************************************************************************)
\* re.search(<tag>(.*?)</tag>, DOTALL): the leftmost opening tag that has a
\* closing tag after it, up to the first such closing tag; group(1).strip()
_extract_tag(text, tag) ==
    LET opens == {i \in 1..Len(text) : text[i] = Open(tag)
                    /\ \E j \in (i+1)..Len(text) : text[j] = Close(tag)}
    IN  IF opens = {} THEN << >>
        ELSE LET i == Min(opens)
                 j == Min({x \in (i+1)..Len(text) : text[x] = Close(tag)})
             IN  strip(SubSeq(text, i + 1, j - 1))

\* a match that takes the last replace-layer block of the text
replace_match_last(text) ==
    LET opens == {i \in 1..Len(text) :
                    /\ text[i].k = "open-id" /\ text[i].v = "replace-layer"
                    /\ \E j \in (i+1)..Len(text) : text[j] = Close("replace-layer")}
    IN  IF opens = {} THEN None
        ELSE LET i == CHOOSE x \in opens : \A y \in opens : y <= x
                 j == Min({x \in (i+1)..Len(text) : text[x] = Close("replace-layer")})
             IN  Some([id |-> text[i].id, body |-> SubSeq(text, i + 1, j - 1)])

\* the replace-layer match of parse_response: <replace-layer id="X">(.*?)</replace-layer>
replace_match(text) ==
    LET opens == {i \in 1..Len(text) :
                    /\ text[i].k = "open-id" /\ text[i].v = "replace-layer"
                    /\ \E j \in (i+1)..Len(text) : text[j] = Close("replace-layer")}
    IN  IF opens = {} THEN None
        ELSE LET i == Min(opens)
                 j == Min({x \in (i+1)..Len(text) : text[x] = Close("replace-layer")})
             IN  Some([id |-> text[i].id, body |-> SubSeq(text, i + 1, j - 1)])

StatusOf(status_raw) ==
    LET s == strip(status_raw)
    IN  IF Len(s) = 1 /\ s[1].k = "word"
           /\ lower(s[1].v) \in {"done", "complete", "finished"}
        THEN "done" ELSE "continue"

parse_response(text) ==
    LET bg == _extract_tag(text, "background")
        m == replace_match(text)
    IN  [notes |-> _extract_tag(text, "notes"),
         svg_elements |-> _extract_tag(text, "svg-elements"),
         defs_elements |-> _extract_tag(text, "defs"),
         replace_layer_id |-> IF m = None THEN None ELSE Some(m[1].id),
         replace_elements |-> IF m = None THEN None ELSE Some(strip(m[1].body)),
         status |-> StatusOf(_extract_tag(text, "status")),
         background |-> IF bg = << >> THEN None ELSE Some(bg)]

\* ParsedResponse(): the dataclass defaults
ParsedResponse ==
    [notes |-> << >>, svg_elements |-> << >>, defs_elements |-> << >>,
     replace_layer_id |-> None, replace_elements |-> None,
     status |-> "continue", background |-> None]

(***************************************************************************)
(* canvas.py: SvgCanvas                                                    *)
(* layers and defs are Python dicts, which keep insertion order: each is   *)
(* a sequence of [id, content] entries with distinct ids.                  *)
(***************************************************************************)
SvgCanvas(background) ==
    [background |-> background, layers |-> << >>, defs |-> << >>,
     next_layer |-> FirstLayer]

Keys(d) == {d[i].id : i \in 1..Len(d)}
Get(d, id) == d[CHOOSE i \in 1..Len(d) : d[i].id = id].content
\* d[id] = content: an existing key keeps its place, a new key goes last
Put(d, id, content) ==
    IF id \in Keys(d)
    THEN [i \in 1..Len(d) |-> IF d[i].id = id THEN [id |-> id, content |-> content]
                              ELSE d[i]]
    ELSE Append(d, [id |-> id, content |-> content])
\* del d[id]
Del(d, id) == SelectSeq(d, LAMBDA e : e.id # id)

\* defs is None or a string: "defs and defs.strip()"
DefsGiven(defs) == defs # None /\ defs[1] # << >> /\ strip(defs[1]) # << >>

\* an add_layer that files the defs under the id after the new one
add_layer_defs_under_next(c, svg_elements, defs) ==
    LET layer_id == c.next_layer
    IN  [layer_id |-> layer_id,
         canvas |-> [c EXCEPT !.next_layer = c.next_layer + 1,
                              !.layers = Put(c.layers, layer_id, strip(svg_elements)),
                              !.defs = IF DefsGiven(defs)
                                       THEN Put(c.defs, layer_id + 1, strip(defs[1]))
                                       ELSE c.defs]]

\* an add_layer that numbers the new layer by the count of layers
add_layer_by_count(c, svg_elements, defs) ==
    LET layer_id == Len(c.layers) + 1
    IN  [layer_id |-> layer_id,
         canvas |-> [c EXCEPT !.next_layer = layer_id + 1,
                              !.layers = Put(c.layers, layer_id, strip(svg_elements)),
                              !.defs = IF DefsGiven(defs)
                                       THEN Put(c.defs, layer_id, strip(defs[1]))
                                       ELSE c.defs]]

\* lines 16-22: the id returned and the canvas after the call
add_layer(c, svg_elements, defs) ==
    LET layer_id == c.next_layer
    IN  [layer_id |-> layer_id,
         canvas |-> [c EXCEPT !.next_layer = c.next_layer + 1,
                              !.layers = Put(c.layers, layer_id, strip(svg_elements)),
                              !.defs = IF DefsGiven(defs)
                                       THEN Put(c.defs, layer_id, strip(defs[1]))
                                       ELSE c.defs]]

\* a replace_layer that stores the markup under an id it does not know
replace_layer_upsert(c, layer_id, svg_elements, defs) ==
    [raised |-> FALSE,
     canvas |-> [c EXCEPT !.layers = Put(c.layers, layer_id, strip(svg_elements)),
                          !.defs = IF DefsGiven(defs)
                                   THEN Put(c.defs, layer_id, strip(defs[1]))
                                   ELSE IF layer_id \in Keys(c.defs)
                                        THEN Del(c.defs, layer_id)
                                        ELSE c.defs]]

\* a replace_layer that looks the id up only after it dropped the defs entry
replace_layer_late_lookup(c, layer_id, svg_elements, defs) ==
    IF layer_id \notin Keys(c.layers)
    THEN [raised |-> TRUE, canvas |-> [c EXCEPT !.defs = << >>]]
    ELSE replace_layer_upsert(c, layer_id, svg_elements, defs)

\* a replace_layer that keeps the defs entry when it is given none
replace_layer_keeps_defs(c, layer_id, svg_elements, defs) ==
    IF layer_id \notin Keys(c.layers)
    THEN [raised |-> TRUE, canvas |-> c]
    ELSE [raised |-> FALSE,
          canvas |-> [c EXCEPT !.layers = Put(c.layers, layer_id, strip(svg_elements)),
                               !.defs = IF DefsGiven(defs)
                                        THEN Put(c.defs, layer_id, strip(defs[1]))
                                        ELSE c.defs]]

\* lines 24-31: whether the call raised KeyError, and the canvas after the call
replace_layer(c, layer_id, svg_elements, defs) ==
    IF layer_id \notin Keys(c.layers)
    THEN [raised |-> TRUE, canvas |-> c]
    ELSE [raised |-> FALSE,
          canvas |-> [c EXCEPT !.layers = Put(c.layers, layer_id, strip(svg_elements)),
                               !.defs = IF DefsGiven(defs)
                                        THEN Put(c.defs, layer_id, strip(defs[1]))
                                        ELSE IF layer_id \in Keys(c.defs)
                                             THEN Del(c.defs, layer_id)
                                             ELSE c.defs]]

\* a serialization that writes the newest layer first
to_svg_newest_first(c) ==
    LET all_defs == join(<<Space>>, [i \in 1..Len(c.defs) |-> c.defs[i].content])
        defs_block == IF all_defs # << >>
                      THEN <<Open("defs")>> \o all_defs \o <<Close("defs")>>
                      ELSE << >>
        n == Len(c.layers)
        layers_block ==
            Concat([i \in 1..n |->
                      <<GroupOpen(c.layers[n + 1 - i].id)>> \o c.layers[n + 1 - i].content
                        \o <<Close("g")>>])
    IN  <<Open("svg"), Open("rect")>> \o c.background \o <<Close("rect")>>
          \o defs_block \o layers_block \o <<Close("svg")>>

\* lines 33-50
to_svg(c) ==
    LET all_defs == join(<<Space>>, [i \in 1..Len(c.defs) |-> c.defs[i].content])
        defs_block == IF all_defs # << >>
                      THEN <<Open("defs")>> \o all_defs \o <<Close("defs")>>
                      ELSE << >>
        layers_block ==
            Concat([i \in 1..Len(c.layers) |->
                      <<GroupOpen(c.layers[i].id)>> \o c.layers[i].content
                        \o <<Close("g")>>])
    IN  <<Open("svg"), Open("rect")>> \o c.background \o <<Close("rect")>>
          \o defs_block \o layers_block \o <<Close("svg")>>

(***************************************************************************)
(* renderer.py.  The renderer is a function of the document: it raises on  *)
(* a document that is not well formed, here one holding an unterminated    *)
(* start tag, wherever the tag stands (a layer, the defs, the fill value). *)
(***************************************************************************)
BreakingWords == {"<circle"}

Renders(svg_string) ==
    \A i \in 1..Len(svg_string) :
        ~(svg_string[i].k = "word" /\ svg_string[i].v \in BreakingWords)

\* the bytes of a successful render; zoom is passed only when scale # 1.0
render_svg_to_png(svg_string, scale) ==
    [kind |-> "png", data |-> svg_string, zoom |-> IF scale # 1 THEN scale ELSE 1]

\* what save_svg writes
svg_file(svg_string) == [kind |-> "svg", data |-> svg_string, zoom |-> 0]

\* path.write_text / path.write_bytes: the file is created or overwritten
write_file(fs, name, content) ==
    [n \in (DOMAIN fs) \cup {name} |-> IF n = name THEN content ELSE fs[n]]

NoFiles == [n \in {} |-> 0]
IterFile(n, ext) == <<"iter", n, ext>>
FinalFile(ext) == <<"final", 0, ext>>

(***************************************************************************)
(* What the environment supplies: backgrounds given on the command line,   *)
(* and the provider's responses (raw text and usage counters).             *)
(***************************************************************************)
White == <<Word("#FFFFFF")>>
Backgrounds == {White, <<Word("<circle")>>}

Tagged(tag, body) == <<Open(tag)>> \o body \o <<Close(tag)>>
Replace(n, body) == <<ReplaceOpen(n)>> \o body \o <<Close("replace-layer")>>

DrawingResponse(raw_text, i, o, cr, cc, t) ==
    [raw_text |-> raw_text, input_tokens |-> i, output_tokens |-> o,
     cache_read_tokens |-> cr, cache_creation_tokens |-> cc, thinking_tokens |-> t]

PlanResponses ==
    { DrawingResponse(Tagged("notes", <<Word("plan")>>)
                        \o Tagged("status", <<Word("continue")>>), 2, 1, 0, 1, 3),
      DrawingResponse(Tagged("svg-elements", <<Word("circle")>>)
                        \o Tagged("defs", <<Word("grad")>>)
                        \o Tagged("background", <<Word("#000000")>>)
                        \o Replace(1, <<Word("rect")>>), 1, 1, 1, 0, 0) }

DrawResponses ==
    { \* notes and a new layer with defs, no status
      DrawingResponse(Tagged("notes", <<Word("n1")>>)
                        \o Tagged("defs", <<Word("grad")>>)
                        \o Tagged("svg-elements", <<Space, Word("rect"), Space>>),
                      1, 0, 0, 0, 0),
      \* a background, and a new layer with defs that does not render
      DrawingResponse(Tagged("background", <<Word("#111111")>>)
                        \o Tagged("defs", <<Word("grad")>>)
                        \o Tagged("svg-elements", <<Word("<circle")>>), 0, 0, 1, 0, 0),
      \* notes only
      DrawingResponse(Tagged("notes", <<Word("n2")>>)
                        \o Tagged("status", <<Word("continue")>>), 0, 0, 0, 1, 0),
      \* a background, defs, a replacement of layer-1 and an empty svg-elements tag
      DrawingResponse(Tagged("background", <<Word("#000000")>>)
                        \o Tagged("defs", <<Word("grad2")>>)
                        \o Replace(1, <<Space, Word("circle")>>)
                        \o Tagged("svg-elements", << >>), 0, 0, 0, 0, 1),
      \* a replacement of layer-1 that does not render
      DrawingResponse(Replace(1, <<Word("<circle")>>), 1, 1, 0, 0, 0),
      \* a replacement of layer-1 that does not render, and a new layer
      DrawingResponse(Replace(1, <<Word("<circle")>>)
                        \o Tagged("svg-elements", <<Word("circle")>>), 0, 1, 1, 0, 0),
      \* a background that does not render
      DrawingResponse(Tagged("background", <<Word("<circle")>>), 0, 0, 0, 1, 1),
      \* a new layer, done
      DrawingResponse(Tagged("svg-elements", <<Word("circle")>>)
                        \o Tagged("status", <<Space, Word("DONE")>>), 2, 0, 0, 0, 1),
      \* done, nothing else
      DrawingResponse(Tagged("status", <<Word("finished")>>), 1, 0, 2, 0, 0) }

\* what send_drawing_request gives back: a response, or a raised error
Returned(r) == [ok |-> TRUE, response |-> r]
Raised == [ok |-> FALSE, response |-> DrawingResponse(<< >>, 0, 0, 0, 0, 0)]

(***************************************************************************)
(* State.                                                                  *)
(***************************************************************************)
VARIABLES
    mode,         \* the entry point the process runs: "cli" or "mcp"
    pc,           \* where run_drawing_session stands
    canvas,       \* session.canvas
    session,      \* the DrawingSession fields other than the canvas
    empty_streak, \* local of run_drawing_session
    parsed,       \* local of run_drawing_session: the turn's ParsedResponse
    log,          \* the lines of artist-log.txt
    files,        \* the other files of the output directory
    sent,         \* the requests the provider was sent, in order
    replies,      \* what the provider gave back, in order
    result,       \* what the entry point or the last tool call gave: None,
                  \* a returned value or a raised error
    _session,     \* mcp_server.py: the global _session, None or a Session
    calls         \* the number of MCP tool calls made so far

vars == <<mode, pc, canvas, session, empty_streak, parsed, log, files, sent,
          replies, result, _session, calls>>

cli_vars == <<pc, session, empty_streak, parsed, sent, replies>>

\* the log lines are pairs <<message, number>>
Line(msg) == <<msg, 0>>

DrawingSession(max_iterations, thinking_enabled) ==
    [max_iterations |-> max_iterations, thinking_enabled |-> thinking_enabled,
     iteration |-> 0, notes_history |-> << >>,
     total_input_tokens |-> 0, total_output_tokens |-> 0,
     total_thinking_tokens |-> 0, total_cache_read_tokens |-> 0,
     total_cache_creation_tokens |-> 0]

\* a request that carries only the latest entry of the notes
DrawingRequestLatestNote(iteration, notes_history, thinking_enabled) ==
    [iteration |-> iteration,
     notes_history |-> IF notes_history = << >> THEN << >>
                       ELSE <<notes_history[Len(notes_history)]>>,
     thinking_enabled |-> thinking_enabled]

\* a request that always asks for thinking
DrawingRequestThinking(iteration, notes_history, thinking_enabled) ==
    [iteration |-> iteration, notes_history |-> notes_history,
     thinking_enabled |-> TRUE]

\* lines 155-166, 207-217: the fields of a request that the run decides
DrawingRequest(iteration, notes_history, thinking_enabled) ==
    [iteration |-> iteration, notes_history |-> notes_history,
     thinking_enabled |-> thinking_enabled]

\* providers/base.py, lines 20-22: format_notes.  enumerate counts the notes
\* of the history from 0, and the note at position i is headed
\* "== Iteration i + 1 notes ==".
format_notes(request) ==
    [n \in 1..Len(request.notes_history) |->
       LET i == n - 1
       IN  [iteration |-> i + 1, note |-> request.notes_history[n]]]

\* notes that are put in front of the history
KeepNotesFirst(s, notes, tag) ==
    IF notes # << >>
    THEN [s EXCEPT !.notes_history = <<tag \o notes>> \o @]
    ELSE s

\* lines 180-181, 236-237: non-empty notes are appended to the history
KeepNotes(s, notes, tag) ==
    IF notes # << >>
    THEN [s EXCEPT !.notes_history = Append(@, tag \o notes)]
    ELSE s

\* line 181: the prefix of the planning note, "[Artistic Plan]" and a newline
PlanTag == <<Word("[Artistic Plan]"), Space>>

\* token tracking that adds the output tokens to the thinking counter
TrackTokensMixed(s, response) ==
    [s EXCEPT
       !.total_input_tokens = @ + response.input_tokens,
       !.total_output_tokens = @ + response.output_tokens,
       !.total_thinking_tokens = @ + response.output_tokens,
       !.total_cache_read_tokens = @ + response.cache_read_tokens,
       !.total_cache_creation_tokens = @ + response.cache_creation_tokens]

\* lines 171-175, 226-230: the five counters of the session take the response's
TrackTokens(s, response) ==
    [s EXCEPT
       !.total_input_tokens = @ + response.input_tokens,
       !.total_output_tokens = @ + response.output_tokens,
       !.total_thinking_tokens = @ + response.thinking_tokens,
       !.total_cache_read_tokens = @ + response.cache_read_tokens,
       !.total_cache_creation_tokens = @ + response.cache_creation_tokens]

(***************************************************************************)
(* orchestrator.py: SessionLogger                                          *)
(***************************************************************************)
log_session_start == <<Line("Prompt"), Line("Provider"), Line("Canvas"),
                       Line("Max iterations")>>

log_iteration_start(iteration) == << <<"== Iteration", iteration>> >>

log_api_response(response) ==
    << Line("Model"), <<"Tokens: in", response.input_tokens>> >>

log_parsed_response(p) ==
    (IF p.notes # << >> THEN <<Line("Artist notes")>> ELSE << >>)
    \o (IF p.background # None THEN <<Line("Background changed")>> ELSE << >>)
    \o (IF p.replace_layer_id # None
        THEN << <<"Replace layer", p.replace_layer_id[1]>> >> ELSE << >>)
    \o (IF p.svg_elements # << >> THEN <<Line("New SVG")>>
        ELSE IF p.replace_layer_id = None
             THEN <<Line("WARNING: No SVG elements in response")>>
             ELSE << >>)
    \o <<Line(IF p.status = "done" THEN "Status: done" ELSE "Status: continue")>>

log_session_end(s) == << Line("== Session complete"), <<"Iterations", s.iteration>> >>

(***************************************************************************)
(* Init: the draw command has built a blank canvas and a session           *)
(* (cli.py, draw).                                                         *)
(***************************************************************************)
InitCli ==
    /\ mode = "cli"
    /\ pc = "planning"
    /\ \E background \in Backgrounds : canvas = SvgCanvas(background)
    /\ \E m \in 1..MaxIterations, t \in BOOLEAN : session = DrawingSession(m, t)
    /\ empty_streak = 0
    /\ parsed = ParsedResponse
    /\ log = << >>
    /\ files = NoFiles
    /\ sent = << >>
    /\ replies = << >>
    /\ result = None
    /\ _session = None
    /\ calls = 0

(***************************************************************************)
(* Init: the MCP server has started and no tool was called yet             *)
(* (mcp_server.py, line 43).                                               *)
(***************************************************************************)
InitMcp ==
    /\ mode = "mcp"
    /\ pc = "serving"
    /\ canvas = SvgCanvas(White)
    /\ session = DrawingSession(1, FALSE)
    /\ empty_streak = 0
    /\ parsed = ParsedResponse
    /\ log = << >>
    /\ files = NoFiles
    /\ sent = << >>
    /\ replies = << >>
    /\ result = None
    /\ _session = None
    /\ calls = 0

Init == InitCli \/ InitMcp

(***************************************************************************)
(* orchestrator.py: run_drawing_session                                    *)
(***************************************************************************)
\* lines 139-192: the start of the run and the planning phase.  The try
\* block ends at the first failure: the preview render or the request.
PlanningSteps ==
    /\ mode = "cli" /\ pc = "planning"
    /\ LET log0 == log_session_start \o log_iteration_start(0)
                     \o <<Line("Planning phase")>>
           plan_svg == to_svg(canvas)
           plan_request == DrawingRequest(0, << >>, TRUE)
       IN  IF ~Renders(plan_svg)
           THEN /\ log' = log0 \o <<Line("WARNING: Planning phase failed")>>
                /\ UNCHANGED <<session, sent, replies>>
           ELSE /\ sent' = Append(sent, plan_request)
                /\ \/ /\ replies' = Append(replies, Raised)
                      /\ log' = log0 \o <<Line("WARNING: Planning phase failed")>>
                      /\ UNCHANGED session
                   \/ \E plan_response \in PlanResponses :
                        LET plan_parsed == parse_response(plan_response.raw_text)
                            s1 == TrackTokens(session, plan_response)
                        IN  /\ replies' = Append(replies, Returned(plan_response))
                            /\ session' = KeepNotes(s1, plan_parsed.notes, PlanTag)
                            /\ log' = log0 \o log_api_response(plan_response)
                                 \o log_parsed_response(plan_parsed)
                                 \o (IF plan_parsed.svg_elements # << >>
                                     THEN <<Line("WARNING: Planning phase produced SVG elements")>>
                                     ELSE << >>)
                                 \o (IF plan_parsed.defs_elements # << >>
                                     THEN <<Line("WARNING: Planning phase produced defs")>>
                                     ELSE << >>)
                                 \o (IF plan_parsed.background # None
                                     THEN <<Line("WARNING: Planning phase changed background")>>
                                     ELSE << >>)

\* line 194: whatever the planning phase met, the loop comes next
PlanningTurn ==
    /\ PlanningSteps
    /\ pc' = "loop"

\* a planning phase that applies the new markup of the plan to the canvas
PlanningPhaseApplies ==
    /\ PlanningTurn
    /\ canvas' =
         IF Len(replies') > Len(replies) /\ replies'[Len(replies')].ok
         THEN LET p == parse_response(replies'[Len(replies')].response.raw_text)
              IN  IF p.svg_elements # << >>
                  THEN add_layer(canvas, p.svg_elements, None).canvas ELSE canvas
         ELSE canvas
    /\ UNCHANGED <<mode, empty_streak, parsed, files, result, _session, calls>>

\* a planning phase whose failure ends the run
PlanningPhaseFatal ==
    /\ PlanningSteps
    /\ pc' = IF Last(log') = Line("WARNING: Planning phase failed")
             THEN "final" ELSE "loop"
    /\ UNCHANGED <<mode, canvas, empty_streak, parsed, files, result, _session, calls>>

\* lines 139-192: the planning phase leaves the canvas and the locals alone
PlanningPhase ==
    /\ PlanningTurn
    /\ UNCHANGED <<mode, canvas, empty_streak, parsed, files, result, _session, calls>>

\* a loop that runs one iteration too many
LoopConditionInclusive(s) == s.iteration <= s.max_iterations

\* line 194: the condition of the while loop
LoopCondition(s) == s.iteration < s.max_iterations

\* lines 194-201, 206: the loop condition holds and the preview renders
IterationStart ==
    /\ mode = "cli" /\ pc = "loop"
    /\ LoopCondition(session)
    /\ Renders(to_svg(canvas))
    /\ session' = [session EXCEPT !.iteration = @ + 1]
    /\ log' = log \o log_iteration_start(session'.iteration)
    /\ pc' = "request"
    /\ UNCHANGED <<mode, canvas, empty_streak, parsed, files, sent, replies, result, _session, calls>>

\* a preview failure that is logged and then ignored
PreviewFailsContinues ==
    /\ mode = "cli" /\ pc = "loop"
    /\ LoopCondition(session)
    /\ ~Renders(to_svg(canvas))
    /\ session' = [session EXCEPT !.iteration = @ + 1]
    /\ log' = log \o log_iteration_start(session'.iteration)
                  \o <<Line("ERROR: Failed to render canvas")>>
    /\ pc' = "request"
    /\ UNCHANGED <<mode, canvas, empty_streak, parsed, files, sent, replies, result, _session, calls>>

\* lines 194-204: the loop condition holds and the preview render raises
PreviewFails ==
    /\ mode = "cli" /\ pc = "loop"
    /\ LoopCondition(session)
    /\ ~Renders(to_svg(canvas))
    /\ session' = [session EXCEPT !.iteration = @ + 1]
    /\ log' = log \o log_iteration_start(session'.iteration)
                  \o <<Line("ERROR: Failed to render canvas")>>
    /\ pc' = "final"
    /\ UNCHANGED <<mode, canvas, empty_streak, parsed, files, sent, replies, result, _session, calls>>

\* a loop that never leaves once its condition fails
ReachedMaxIterationsNever ==
    /\ mode = "cli" /\ pc = "loop"
    /\ ~LoopCondition(session)
    /\ UNCHANGED vars

\* the else branch of the while taken as a statement after the loop
ReachedMaxIterationsAfterBreak ==
    /\ mode = "cli" /\ pc \in {"loop", "final"}
    /\ pc = "loop" => ~LoopCondition(session)
    /\ \A i \in 1..Len(log) : log[i][1] # "Reached max iterations"
    /\ log' = log \o << <<"Reached max iterations", session.max_iterations>> >>
    /\ pc' = "final"
    /\ UNCHANGED <<mode, canvas, session, empty_streak, parsed, files, sent,
                   replies, result, _session, calls>>

\* lines 194, 293-294: the loop condition fails, the else branch of the while
ReachedMaxIterations ==
    /\ mode = "cli" /\ pc = "loop"
    /\ ~LoopCondition(session)
    /\ log' = log \o << <<"Reached max iterations", session.max_iterations>> >>
    /\ pc' = "final"
    /\ UNCHANGED <<mode, canvas, session, empty_streak, parsed, files, sent,
                   replies, result, _session, calls>>

\* a provider failure after which the loop goes on to the next iteration
RequestFailsRetries ==
    /\ mode = "cli" /\ pc = "request"
    /\ sent' = Append(sent, DrawingRequest(session.iteration, session.notes_history,
                                           session.thinking_enabled))
    /\ replies' = Append(replies, Raised)
    /\ log' = log \o <<Line("ERROR: API call failed")>>
    /\ pc' = "loop"
    /\ UNCHANGED <<mode, canvas, session, empty_streak, parsed, files, result, _session, calls>>

\* lines 206-223: the request of the turn is sent and the provider raises
RequestFails ==
    /\ mode = "cli" /\ pc = "request"
    /\ sent' = Append(sent, DrawingRequest(session.iteration, session.notes_history,
                                           session.thinking_enabled))
    /\ replies' = Append(replies, Raised)
    /\ log' = log \o <<Line("ERROR: API call failed")>>
    /\ pc' = "final"
    /\ UNCHANGED <<mode, canvas, session, empty_streak, parsed, files, result, _session, calls>>

\* lines 206-239: the request of the turn is answered: tokens, parse, notes
RequestAnswered ==
    /\ mode = "cli" /\ pc = "request"
    /\ sent' = Append(sent, DrawingRequest(session.iteration, session.notes_history,
                                           session.thinking_enabled))
    /\ \E response \in DrawResponses :
         LET p == parse_response(response.raw_text)
             s1 == TrackTokens(session, response)
         IN  /\ replies' = Append(replies, Returned(response))
             /\ parsed' = p
             /\ session' = KeepNotes(s1, p.notes, << >>)
             /\ log' = log \o log_api_response(response) \o log_parsed_response(p)
    /\ pc' = "apply"
    /\ UNCHANGED <<mode, canvas, empty_streak, files, result, _session, calls>>

\* a KeyError of the replacement that ends the run
AfterReplaceFatal(key_error) == IF key_error THEN "final" ELSE "add"

\* lines 248-253: the KeyError of the replacement is caught, the turn goes on
AfterReplace(key_error) == "add"

\* a replace directive that is given the defs of the response
ReplaceDefsArgGiven(p) ==
    IF p.defs_elements # << >> THEN Some(p.defs_elements) ELSE None

\* line 248: replace_layer is called without defs
ReplaceDefsArg(p) == None

\* lines 241-251: the background and the replace directive
ApplyDirectives ==
    /\ mode = "cli" /\ pc = "apply"
    /\ LET c1 == IF parsed.background # None
                 THEN [canvas EXCEPT !.background = parsed.background[1]]
                 ELSE canvas
           replacing == /\ parsed.replace_layer_id # None
                        /\ parsed.replace_elements # None
                        /\ parsed.replace_elements[1] # << >>
           replaced == replace_layer(c1, parsed.replace_layer_id[1],
                                     parsed.replace_elements[1],
                                     ReplaceDefsArg(parsed))
       IN  IF replacing
           THEN /\ canvas' = replaced.canvas
                /\ log' = IF ~replaced.raised
                          THEN Append(log, <<"Replaced", parsed.replace_layer_id[1]>>)
                          ELSE Append(log, <<"WARNING: Cannot replace",
                                             parsed.replace_layer_id[1]>>)
           ELSE /\ canvas' = c1
                /\ log' = log
    /\ pc' = AfterReplace(Last(log')[1] = "WARNING: Cannot replace")
    /\ UNCHANGED <<mode, session, empty_streak, parsed, files, sent, replies, result, _session, calls>>

\* a rollback that empties the canvas
RemoveAllLayers(c, layer_id) == [c EXCEPT !.layers = << >>, !.defs = << >>]

\* a rollback that forgets the defs of the layer
RemoveLayerKeepsDefs(c, layer_id) == [c EXCEPT !.layers = Del(c.layers, layer_id)]

\* a rollback that also puts the background back to white
RemoveLayerResetsBackground(c, layer_id) ==
    [c EXCEPT !.layers = Del(c.layers, layer_id),
              !.defs = IF layer_id \in Keys(c.defs) THEN Del(c.defs, layer_id)
                       ELSE c.defs,
              !.background = <<Word("#FFFFFF")>>]

\* lines 262-267: the rollback of the layer just added
RemoveLayer(c, layer_id) ==
    [c EXCEPT !.layers = Del(c.layers, layer_id),
              !.defs = IF layer_id \in Keys(c.defs) THEN Del(c.defs, layer_id)
                       ELSE c.defs]

\* line 255: parsed.defs_elements or None
DefsArg(p) == IF p.defs_elements # << >> THEN Some(p.defs_elements) ELSE None

\* a streak that a replace directive leaves as it is
StreakWithoutMarkupKept(streak, p) ==
    IF p.replace_layer_id = None THEN streak + 1 ELSE streak

\* lines 270-273: the empty streak of a turn without new markup
StreakWithoutMarkup(streak, p) ==
    IF p.replace_layer_id = None THEN streak + 1 ELSE 0

\* lines 253-273: the new layer, its validation render, the empty streak
AddNewLayer ==
    /\ mode = "cli" /\ pc = "add"
    /\ IF parsed.svg_elements # << >>
       THEN LET added == add_layer(canvas, parsed.svg_elements, DefsArg(parsed))
                layer_id == added.layer_id
                c1 == added.canvas
            IN  IF Renders(to_svg(c1))
                THEN /\ canvas' = c1
                     /\ log' = log \o << <<"Added", layer_id>> >>
                     /\ empty_streak' = 0
                ELSE /\ canvas' = RemoveLayer(c1, layer_id)
                     /\ log' = log \o << <<"Added", layer_id>>,
                                         <<"WARNING: caused render error, removing",
                                           layer_id>> >>
                     /\ empty_streak' = empty_streak + 1
       ELSE /\ empty_streak' = StreakWithoutMarkup(empty_streak, parsed)
            /\ UNCHANGED <<canvas, log>>
    /\ pc' = "check"
    /\ UNCHANGED <<mode, session, parsed, files, sent, replies, result, _session, calls>>

\* files of the turn that are written only when the canvas renders
SaveIntermediateRendered(fs, c, iteration) ==
    LET current_svg == to_svg(c)
    IN  IF Renders(current_svg)
        THEN write_file(write_file(fs, IterFile(iteration, "svg"), svg_file(current_svg)),
                        IterFile(iteration, "png"), render_svg_to_png(current_svg, 1))
        ELSE fs

\* lines 279-287: the files of the turn; the raster is best effort
SaveIntermediate(fs, c, iteration) ==
    LET current_svg == to_svg(c)
        fs1 == write_file(fs, IterFile(iteration, "svg"), svg_file(current_svg))
    IN  IF Renders(current_svg)
        THEN write_file(fs1, IterFile(iteration, "png"),
                        render_svg_to_png(current_svg, 1))
        ELSE fs1

\* a stop one iteration late
ShouldStopLate(streak) == streak > EmptyStreakLimit

\* line 275: the empty-streak stop
ShouldStop(streak) == streak >= EmptyStreakLimit

\* a status that is never taken as done
IsDoneNever(p) == FALSE

\* line 290: the artist signalled done
IsDone(p) == p.status = "done"

\* lines 275-292: the empty-streak stop, the files of the turn, the status
EndOfIteration ==
    /\ mode = "cli" /\ pc = "check"
    /\ IF ShouldStop(empty_streak)
       THEN /\ log' = log \o <<Line("STOPPING: 3 consecutive iterations with no new content.")>>
            /\ pc' = "final"
            /\ UNCHANGED files
       ELSE /\ files' = SaveIntermediate(files, canvas, session.iteration)
            /\ LET warn == IF Renders(to_svg(canvas)) THEN << >>
                           ELSE <<Line("WARNING: Could not save intermediate PNG")>>
               IN  IF IsDone(parsed)
                   THEN /\ log' = log \o warn \o <<Line("Artist signaled done.")>>
                        /\ pc' = "final"
                   ELSE /\ log' = log \o warn
                        /\ pc' = "loop"
    /\ UNCHANGED <<mode, canvas, session, empty_streak, parsed, sent, replies, result, _session, calls>>

\* final steps that say nothing of a raster that could not be written
FinalizeSilent ==
    /\ mode = "cli" /\ pc = "final"
    /\ LET final_svg == to_svg(canvas)
           fs1 == write_file(files, FinalFile("svg"), svg_file(final_svg))
       IN  /\ files' = IF Renders(final_svg)
                       THEN write_file(fs1, FinalFile("png"),
                                       render_svg_to_png(final_svg, ExportScale))
                       ELSE fs1
           /\ log' = log \o log_session_end(session)
    /\ result' = Some(FinalFile("svg"))
    /\ pc' = "done"
    /\ UNCHANGED <<mode, canvas, session, empty_streak, parsed, sent, replies,
                   _session, calls>>

\* final steps that persist the document only when it renders
FinalizeRendered ==
    /\ mode = "cli" /\ pc = "final"
    /\ LET final_svg == to_svg(canvas)
       IN  IF Renders(final_svg)
           THEN /\ files' = write_file(write_file(files, FinalFile("svg"),
                                                  svg_file(final_svg)),
                                       FinalFile("png"),
                                       render_svg_to_png(final_svg, ExportScale))
                /\ log' = log \o log_session_end(session)
                /\ result' = Some(FinalFile("svg"))
           ELSE /\ files' = files
                /\ log' = log \o <<Line("WARNING: Could not save final PNG")>>
                /\ result' = None
    /\ pc' = "done"
    /\ UNCHANGED <<mode, canvas, session, empty_streak, parsed, sent, replies,
                   _session, calls>>

\* lines 296-309: the final files, the footer of the log, the returned path
Finalize ==
    /\ mode = "cli" /\ pc = "final"
    /\ LET final_svg == to_svg(canvas)
           fs1 == write_file(files, FinalFile("svg"), svg_file(final_svg))
       IN  IF Renders(final_svg)
           THEN /\ files' = write_file(fs1, FinalFile("png"),
                                       render_svg_to_png(final_svg, ExportScale))
                /\ log' = log \o log_session_end(session)
           ELSE /\ files' = fs1
                /\ log' = log \o <<Line("WARNING: Could not save final PNG")>>
                              \o log_session_end(session)
    /\ result' = Some(FinalFile("svg"))
    /\ pc' = "done"
    /\ UNCHANGED <<mode, canvas, session, empty_streak, parsed, sent, replies,
                   _session, calls>>

(***************************************************************************)
(* mcp_server.py.  One action per tool call; a call that raises leaves     *)
(* the state its code had reached.  The lines a Session logs stay in its   *)
(* buffer until flush_log appends them to artist-log.txt.                  *)
(***************************************************************************)
\* a session that starts with one iteration counted
SessionFromOne == [iteration |-> 1, finished |-> FALSE, log_lines |-> << >>]

Session == [iteration |-> 0, finished |-> FALSE, log_lines |-> << >>]

Returns(msg, n) == Some(<<"returned", n, msg>>)
Raises(msg, n) == Some(<<"raised", n, msg>>)

\* what the tool calls are given
ToolBackgrounds == Backgrounds \cup {<<Word("#000000")>>}
AddLayerArgs ==
    { [svg_elements |-> <<Word("circle")>>, defs |-> None],
      [svg_elements |-> <<Space, Word("rect")>>, defs |-> Some(<<Word("grad")>>)],
      [svg_elements |-> <<Word("path")>>, defs |-> Some(<<Word("grad3")>>)],
      [svg_elements |-> <<Word("circle")>>, defs |-> Some(<<Word("<circle")>>)] }
ReplaceLayerArgs ==
    { [layer_id |-> 1, svg_elements |-> <<Word("rect")>>, defs |-> None],
      [layer_id |-> 1, svg_elements |-> <<Word("<circle")>>, defs |-> None],
      [layer_id |-> 2, svg_elements |-> <<Word("rect")>>,
       defs |-> Some(<<Word("grad2")>>)],
      [layer_id |-> 2, svg_elements |-> <<Word("<circle")>>,
       defs |-> Some(<<Word("grad2")>>)] }

\* a mutable-session test that does not look at the finished flag
NotMutableUnfinished == _session = None

\* lines 46-56: _require_session and _require_mutable_session raise
NoSession == _session = None
NotMutable == _session = None \/ _session[1].finished
RequireError ==
    IF _session = None THEN Raises("No active session", 0)
    ELSE Raises("Drawing is finished", 0)

\* lines 74-82: _save_intermediates
_save_intermediates(fs, c, iteration) == SaveIntermediate(fs, c, iteration)

NoEffect ==
    UNCHANGED <<canvas, log, files, _session>>

\* lines 90-154: create_canvas
create_canvas ==
    /\ mode = "mcp" /\ calls < MaxCalls
    /\ calls' = calls + 1
    /\ \E background \in Backgrounds :
         /\ canvas' = SvgCanvas(background)
         /\ _session' = Some(Session)
         /\ files' = NoFiles
         /\ log' = <<Line("Prompt"), Line("Canvas"), Line("Output")>>
         /\ result' = IF Renders(to_svg(canvas'))
                      THEN Returns("Drawing Session", 0)
                      ELSE Raises("render error", 0)
    /\ UNCHANGED <<mode, cli_vars>>

\* a rollback that keeps the iteration the call had counted
RolledBackIterationKept(iteration) == iteration

\* line 185: the rollback takes back the iteration the call had counted
RolledBackIteration(iteration) == iteration - 1

\* lines 157-195: add_layer
mcp_add_layer ==
    /\ mode = "mcp" /\ calls < MaxCalls
    /\ calls' = calls + 1
    /\ \E args \in AddLayerArgs :
         IF NotMutable
         THEN /\ result' = RequireError
              /\ NoEffect
         ELSE LET s == _session[1]
                  iteration == s.iteration + 1
                  added == add_layer(canvas, args.svg_elements, args.defs)
                  layer_id == added.layer_id
                  c1 == added.canvas
                  lines == s.log_lines \o << <<"== add_layer", iteration>> >>
              IN  IF ~Renders(to_svg(c1))
                  THEN /\ canvas' = RemoveLayer(c1, layer_id)
                       /\ _session' = Some([s EXCEPT
                                          !.iteration = RolledBackIteration(iteration),
                                          !.log_lines = << >>])
                       /\ log' = log \o lines \o << <<"ROLLED BACK", layer_id>> >>
                       /\ result' = Raises("caused a render error and was rolled back",
                                           layer_id)
                       /\ UNCHANGED files
                  ELSE /\ canvas' = c1
                       /\ _session' = Some([s EXCEPT !.iteration = iteration,
                                                     !.log_lines = << >>])
                       /\ log' = log \o lines \o << <<"Added", layer_id>> >>
                       /\ files' = _save_intermediates(files, c1, iteration)
                       /\ result' = Returns("Added", layer_id)
    /\ UNCHANGED <<mode, cli_vars>>

\* lines 226-231: the rollback of a replacement
RestoreLayer(c, layer_id, old_elements, old_defs) ==
    [c EXCEPT !.layers = Put(c.layers, layer_id, old_elements[1]),
              !.defs = IF old_defs # None THEN Put(c.defs, layer_id, old_defs[1])
                       ELSE IF layer_id \in Keys(c.defs) THEN Del(c.defs, layer_id)
                       ELSE c.defs]

\* lines 198-243: replace_layer
mcp_replace_layer ==
    /\ mode = "mcp" /\ calls < MaxCalls
    /\ calls' = calls + 1
    /\ \E args \in ReplaceLayerArgs :
         IF NotMutable
         THEN /\ result' = RequireError
              /\ NoEffect
         ELSE LET s == _session[1]
                  layer_id == args.layer_id
                  lines == s.log_lines \o << <<"== replace_layer", layer_id>> >>
                  old_elements == IF layer_id \in Keys(canvas.layers)
                                  THEN Some(Get(canvas.layers, layer_id)) ELSE None
                  old_defs == IF layer_id \in Keys(canvas.defs)
                              THEN Some(Get(canvas.defs, layer_id)) ELSE None
                  replaced == replace_layer(canvas, layer_id, args.svg_elements,
                                            args.defs)
              IN  IF replaced.raised
                  THEN \* the KeyError: the line logged stays in the buffer
                       /\ canvas' = replaced.canvas
                       /\ _session' = Some([s EXCEPT !.log_lines = lines])
                       /\ result' = Raises("does not exist", layer_id)
                       /\ UNCHANGED <<log, files>>
                  ELSE LET c1 == replaced.canvas
                       IN  IF ~Renders(to_svg(c1))
                           THEN /\ canvas' = RestoreLayer(c1, layer_id, old_elements,
                                                          old_defs)
                                /\ _session' = Some([s EXCEPT !.log_lines = << >>])
                                /\ log' = log \o lines
                                            \o << <<"ROLLED BACK replace", layer_id>> >>
                                /\ result' = Raises("caused a render error and was rolled back",
                                                    layer_id)
                                /\ UNCHANGED files
                           ELSE /\ canvas' = c1
                                /\ _session' = Some([s EXCEPT !.log_lines = << >>])
                                /\ log' = log \o lines \o << <<"Replaced", layer_id>> >>
                                /\ files' = _save_intermediates(files, c1, s.iteration)
                                /\ result' = Returns("Replaced", layer_id)
    /\ UNCHANGED <<mode, cli_vars>>

\* lines 246-257: set_background
set_background ==
    /\ mode = "mcp" /\ calls < MaxCalls
    /\ calls' = calls + 1
    /\ \E color \in ToolBackgrounds :
         IF NotMutable
         THEN /\ result' = RequireError
              /\ NoEffect
         ELSE LET s == _session[1]
              IN  /\ canvas' = [canvas EXCEPT !.background = color]
                  /\ _session' = Some([s EXCEPT !.log_lines = << >>])
                  /\ log' = log \o s.log_lines \o <<Line("Background changed")>>
                  /\ result' = IF Renders(to_svg(canvas'))
                               THEN Returns("Background set", 0)
                               ELSE Raises("render error", 0)
                  /\ UNCHANGED files
    /\ UNCHANGED <<mode, cli_vars>>

\* lines 260-271: view_canvas
view_canvas ==
    /\ mode = "mcp" /\ calls < MaxCalls
    /\ calls' = calls + 1
    /\ result' = IF NoSession THEN Raises("No active session", 0)
                 ELSE IF ~Renders(to_svg(canvas)) THEN Raises("render error", 0)
                 ELSE IF _session[1].finished THEN Returns("Canvas (Drawing is finished)", 0)
                 ELSE Returns("Canvas", 0)
    /\ NoEffect
    /\ UNCHANGED <<mode, cli_vars>>

\* lines 274-309: finish_drawing
finish_drawing ==
    /\ mode = "mcp" /\ calls < MaxCalls
    /\ calls' = calls + 1
    /\ IF NotMutable
       THEN /\ result' = RequireError
            /\ NoEffect
       ELSE LET s == _session[1]
                final_svg == to_svg(canvas)
                fs1 == write_file(files, FinalFile("svg"), svg_file(final_svg))
            IN  IF ~Renders(final_svg)
                THEN \* the render of final.png raises after finished was set
                     /\ _session' = Some([s EXCEPT !.finished = TRUE])
                     /\ files' = fs1
                     /\ result' = Raises("render error", 0)
                     /\ UNCHANGED <<canvas, log>>
                ELSE /\ _session' = Some([s EXCEPT !.finished = TRUE,
                                                   !.log_lines = << >>])
                     /\ files' = write_file(fs1, FinalFile("png"),
                                            render_svg_to_png(final_svg, ExportScale))
                     /\ log' = log \o s.log_lines
                                 \o << Line("== Drawing finished"),
                                       <<"Iterations", s.iteration>> >>
                     /\ result' = Returns("Drawing complete", s.iteration)
                     /\ UNCHANGED canvas
    /\ UNCHANGED <<mode, cli_vars>>

\* lines 312-333: save_artist_statement
save_artist_statement ==
    /\ mode = "mcp" /\ calls < MaxCalls
    /\ calls' = calls + 1
    /\ IF NoSession
       THEN /\ result' = Raises("No active session", 0)
            /\ NoEffect
       ELSE IF ~_session[1].finished
       THEN /\ result' = Raises("Drawing is not finished yet", 0)
            /\ NoEffect
       ELSE LET s == _session[1]
            IN  /\ files' = write_file(files, <<"artist-statement", 0, "txt">>,
                                       [kind |-> "txt", data |-> <<Word("statement")>>,
                                        zoom |-> 0])
                /\ _session' = Some([s EXCEPT !.log_lines = << >>])
                /\ log' = log \o s.log_lines \o <<Line("Artist statement saved")>>
                /\ result' = Returns("Artist statement saved", 0)
                /\ UNCHANGED canvas
    /\ UNCHANGED <<mode, cli_vars>>

Next ==
    \/ PlanningPhase
    \/ IterationStart
    \/ PreviewFails
    \/ ReachedMaxIterations
    \/ RequestFails
    \/ RequestAnswered
    \/ ApplyDirectives
    \/ AddNewLayer
    \/ EndOfIteration
    \/ Finalize
    \/ create_canvas
    \/ mcp_add_layer
    \/ mcp_replace_layer
    \/ set_background
    \/ view_canvas
    \/ finish_drawing
    \/ save_artist_statement

Spec == Init /\ [][Next]_vars

(***************************************************************************)
(* The run of run_drawing_session on its own, with every call it makes     *)
(* returning: the function is sequential code, so whenever a step of it is *)
(* possible, one is taken.                                                 *)
(***************************************************************************)
NextRun ==
    \/ PlanningPhase
    \/ IterationStart
    \/ PreviewFails
    \/ ReachedMaxIterations
    \/ RequestFails
    \/ RequestAnswered
    \/ ApplyDirectives
    \/ AddNewLayer
    \/ EndOfIteration
    \/ Finalize

\* the runs followed to their end are those of at most this many iterations
MaxRunIterations == 3

InitRun == InitCli /\ session.max_iterations <= MaxRunIterations

SpecRun == InitRun /\ [][NextRun]_vars /\ WF_vars(NextRun)

(***************************************************************************)
(* The run with an output directory whose writes can fail.  save_svg,      *)
(* save_png and SessionLogger.write raise OSError when the write fails;    *)
(* an error that no except clause of run_drawing_session catches leaves    *)
(* the function (pc = "raised").                                           *)
(***************************************************************************)
Propagates(msg, n) ==
    /\ pc' = "raised"
    /\ result' = Some(<<"raised", n, msg>>)

\* line 282: save_svg of the turn's document raises, outside any try
SaveSvgFails ==
    /\ mode = "cli" /\ pc = "check"
    /\ ~ShouldStop(empty_streak)
    /\ Propagates("save_svg", session.iteration)
    /\ UNCHANGED <<mode, canvas, session, empty_streak, parsed, log, files, sent,
                   replies, _session, calls>>

\* lines 283-287: save_png of the turn's raster raises inside the try
SavePngFails ==
    /\ mode = "cli" /\ pc = "check"
    /\ ~ShouldStop(empty_streak)
    /\ Renders(to_svg(canvas))
    /\ files' = write_file(files, IterFile(session.iteration, "svg"),
                           svg_file(to_svg(canvas)))
    /\ LET warn == <<Line("WARNING: Could not save intermediate PNG")>>
       IN  IF IsDone(parsed)
           THEN /\ log' = log \o warn \o <<Line("Artist signaled done.")>>
                /\ pc' = "final"
           ELSE /\ log' = log \o warn
                /\ pc' = "loop"
    /\ UNCHANGED <<mode, canvas, session, empty_streak, parsed, sent, replies,
                   result, _session, calls>>

\* line 299: save_svg of the final document raises, outside any try
FinalSvgFails ==
    /\ mode = "cli" /\ pc = "final"
    /\ Propagates("save_svg", 0)
    /\ UNCHANGED <<mode, canvas, session, empty_streak, parsed, log, files, sent,
                   replies, _session, calls>>

\* lines 301-305: save_png of the final raster raises inside the try
FinalPngFails ==
    /\ mode = "cli" /\ pc = "final"
    /\ Renders(to_svg(canvas))
    /\ files' = write_file(files, FinalFile("svg"), svg_file(to_svg(canvas)))
    /\ log' = log \o <<Line("WARNING: Could not save final PNG")>>
                  \o log_session_end(session)
    /\ result' = Some(FinalFile("svg"))
    /\ pc' = "done"
    /\ UNCHANGED <<mode, canvas, session, empty_streak, parsed, sent, replies,
                   _session, calls>>

\* lines 62-65: the write of a log line raises.  The first line of the run
\* (line 142), the marker of an iteration (line 196) and the footer (line
\* 307) are written outside any try.
LogWriteFails ==
    /\ mode = "cli"
    /\ \/ /\ pc = "planning"
          /\ UNCHANGED <<session, files>>
       \/ /\ pc = "loop" /\ LoopCondition(session)
          /\ session' = [session EXCEPT !.iteration = @ + 1]
          /\ UNCHANGED files
       \/ /\ pc = "final" /\ Renders(to_svg(canvas))
          /\ files' = write_file(write_file(files, FinalFile("svg"),
                                            svg_file(to_svg(canvas))),
                                 FinalFile("png"),
                                 render_svg_to_png(to_svg(canvas), ExportScale))
          /\ UNCHANGED session
    /\ Propagates("SessionLogger.write", session.iteration)
    /\ UNCHANGED <<mode, canvas, empty_streak, parsed, log, sent, replies,
                   _session, calls>>

NextFaults ==
    \/ PlanningPhase
    \/ IterationStart
    \/ PreviewFails
    \/ ReachedMaxIterations
    \/ RequestFails
    \/ RequestAnswered
    \/ ApplyDirectives
    \/ AddNewLayer
    \/ EndOfIteration
    \/ Finalize
    \/ SaveSvgFails
    \/ SavePngFails
    \/ FinalSvgFails
    \/ FinalPngFails
    \/ LogWriteFails

\* the draw command with its default background and thinking switched off
InitFaults ==
    /\ InitCli
    /\ canvas.background = White
    /\ ~session.thinking_enabled

SpecFaults == InitFaults /\ [][NextFaults]_vars

(***************************************************************************)
(* parse_response on its own: the text is any sequence of up to            *)
(* MaxSegments segments, a segment being a block of the response grammar   *)
(* or a stray piece of one.                                                *)
(***************************************************************************)
Segments ==
    { Tagged("status", <<Word("done")>>),
      Tagged("status", <<Space, Word("DONE"), Space>>),
      Tagged("status", <<Word("Complete")>>),
      Tagged("status", <<Word("FINISHED")>>),
      Tagged("status", <<Word("maybe")>>),
      Tagged("status", <<Word("done"), Space, Word("now")>>),
      Tagged("status", << >>),
      Replace(1, <<Word("rect")>>),
      Replace(2, <<Space, Word("circle"), Space>>),
      Replace(1, << >>),
      Replace(2, <<Space>>),
      Tagged("notes", <<Word("n1")>>),
      Tagged("svg-elements", <<Word("rect")>>),
      Tagged("background", <<Word("#000000")>>),
      <<Open("status")>>,
      <<Close("status")>>,
      <<ReplaceOpen(1)>>,
      <<Close("replace-layer")>>,
      <<Word("done")>> }

RECURSIVE Texts(_)
Texts(n) ==
    IF n = 0 THEN {<< >>}
    ELSE Texts(n - 1) \cup {t \o seg : t \in Texts(n - 1), seg \in Segments}

InitParser ==
    /\ mode = "parser"
    /\ pc = "text"
    /\ \E text \in Texts(MaxSegments) :
         replies = <<Returned(DrawingResponse(text, 0, 0, 0, 0, 0))>>
    /\ canvas = SvgCanvas(White)
    /\ session = DrawingSession(1, FALSE)
    /\ empty_streak = 0
    /\ parsed = ParsedResponse
    /\ log = << >>
    /\ files = NoFiles
    /\ sent = << >>
    /\ result = None
    /\ _session = None
    /\ calls = 0

\* parse_response(response.raw_text)
Parse ==
    /\ mode = "parser" /\ pc = "text"
    /\ parsed' = parse_response(replies[1].response.raw_text)
    /\ pc' = "parsed"
    /\ UNCHANGED <<mode, canvas, session, empty_streak, log, files, sent, replies,
                   result, _session, calls>>

NextParser == Parse

SpecParser == InitParser /\ [][NextParser]_vars

(***************************************************************************)
(* Properties.                                                             *)
(***************************************************************************)
Cli == mode = "cli"

RECURSIVE Sum(_)
Sum(ns) == IF ns = << >> THEN 0 ELSE Head(ns) + Sum(Tail(ns))

\* what the provider gave back to the drawing requests (iteration >= 1), in order
DrawOutcomes ==
    LET planned == IF sent # << >> /\ sent[1].iteration = 0 THEN 1 ELSE 0
    IN  SubSeq(replies, planned + 1, Len(replies))
ParsedOf(outcome) == parse_response(outcome.response.raw_text)
ContentFree(p) == p.svg_elements = << >> /\ p.replace_layer_id = None

StoppingLine == Line("STOPPING: 3 consecutive iterations with no new content.")
PreviewErrorLine == Line("ERROR: Failed to render canvas")
ProviderErrorLine == Line("ERROR: API call failed")
Removing(layer_id) == <<"WARNING: caused render error, removing", layer_id>>
Terminating == pc \in {"final", "done"}
\* the run stands between two turns or after them
BetweenTurns == pc \in {"loop", "request", "final", "done"}

\* C1: when the validation render after the append of the turn's new layer
\* fails, the layer and its defs entry are deleted, so that layers and defs
\* are what they were before the append; the iteration counter keeps the
\* value of this turn and the empty streak grows by exactly one.
C1_RollbackOfNewLayer ==
    [][ ( /\ Cli /\ pc = "add" /\ parsed.svg_elements # << >>
          /\ ~Renders(to_svg(add_layer(canvas, parsed.svg_elements,
                                       DefsArg(parsed)).canvas)) )
        => ( /\ canvas'.layers = canvas.layers
             /\ canvas'.defs = canvas.defs
             /\ canvas.next_layer \notin Keys(canvas'.layers)
             /\ session'.iteration = session.iteration
             /\ session.iteration = Last(sent).iteration
             /\ session.iteration >= 1
             /\ empty_streak' = empty_streak + 1 ) ]_vars

C1_Witness ==
    /\ Cli /\ pc = "check"
    /\ Last(log) = Removing(canvas.next_layer - 1)
    /\ parsed.defs_elements # << >>
    /\ canvas.defs # << >>
    /\ empty_streak = 2

\* C2: the k-th add_layer call on a canvas returns layer-k, whatever
\* replace_layer calls and rollback deletions come in between.  Every
\* add_layer call of the driver and of the MCP tool logs the id it was given.
IssuedIds ==
    LET at == {i \in 1..Len(log) : log[i][1] \in {"Added", "ROLLED BACK"}}
        nth[k \in 1..Cardinality(at)] ==
            IF k = 1 THEN Min(at) ELSE Min({i \in at : i > nth[k - 1]})
    IN  [k \in 1..Cardinality(at) |-> log[nth[k]][2]]

C2_IdsInSequence ==
    \A k \in 1..Len(IssuedIds) : IssuedIds[k] = FirstLayer + k - 1

C2_Witness ==
    /\ mode = "mcp"
    /\ IssuedIds = <<1, 2, 3>>
    /\ <<"ROLLED BACK", 2>> \in Range(log)
    /\ <<"Replaced", 1>> \in Range(log)
    /\ [i \in 1..Len(canvas.layers) |-> canvas.layers[i].id] = <<1, 3>>

\* C3: at the preview step of every iteration the canvas renders, when the
\* initial canvas did (the planning request was sent): output of an earlier
\* turn that breaks the render was rolled back in its own turn.
C3_PreviewNeverBrokenByEarlierTurn ==
    (Cli /\ pc = "loop" /\ LoopCondition(session) /\ sent # << >>)
    => Renders(to_svg(canvas))

\* C4: the planning phase never changes the canvas, whatever the planning
\* response holds, so the first layer of the drawing phase is layer-1.
FirstAdded ==
    LET at == {i \in 1..Len(log) : log[i][1] = "Added"}
    IN  IF at = {} THEN None ELSE Some(log[Min(at)][2])

C4_PlanningLeavesCanvas ==
    /\ [][ (Cli /\ pc = "planning")
           => (canvas' = canvas /\ canvas'.layers = << >>
               /\ canvas'.next_layer = FirstLayer) ]_vars
    /\ []( (Cli /\ FirstAdded # None) => FirstAdded = Some(FirstLayer) )

C4_Witness ==
    /\ Cli
    /\ Line("WARNING: Planning phase produced SVG elements") \in Range(log)
    /\ Line("WARNING: Planning phase changed background") \in Range(log)
    /\ canvas.background = White
    /\ FirstAdded = Some(FirstLayer)

\* C5: once three consecutive drawing iterations brought no new markup and no
\* replace directive, the run is terminating with the stopping reason logged,
\* and no further request is sent, whatever iteration budget remains.
LastThreeContentFree ==
    LET d == DrawOutcomes
    IN  /\ Len(d) >= EmptyStreakLimit
        /\ \A i \in (Len(d) - EmptyStreakLimit + 1)..Len(d) :
             d[i].ok /\ ContentFree(ParsedOf(d[i]))

C5_StopsAfterThreeEmptyTurns ==
    (Cli /\ LastThreeContentFree /\ BetweenTurns)
    => ( /\ Terminating
         /\ StoppingLine \in Range(log)
         /\ session.iteration = Len(DrawOutcomes)
         /\ Last(sent).iteration = session.iteration )

C5_Witness ==
    /\ Cli /\ pc = "done"
    /\ LastThreeContentFree
    /\ StoppingLine \in Range(log)
    /\ session.iteration = EmptyStreakLimit
    /\ session.max_iterations > EmptyStreakLimit
\* C6 as stated: for any max_iterations M, when every turn returns continue
\* and no provider or preview-render failure occurs, the finished run stands
\* at iteration M with exactly M drawing requests sent, whatever the turns hold.
AllTurnsContinue ==
    /\ \A i \in 1..Len(replies) : replies[i].ok
    /\ \A i \in 1..Len(DrawOutcomes) : ParsedOf(DrawOutcomes[i]).status = "continue"
    /\ PreviewErrorLine \notin Range(log)
    /\ Line("WARNING: Planning phase failed") \notin Range(log)

C6_StopsExactlyAtMaxIterations ==
    (Cli /\ pc = "done" /\ AllTurnsContinue)
    => ( /\ session.iteration = session.max_iterations
         /\ Len(DrawOutcomes) = session.max_iterations )

\* C6 amended: under the same conditions the finished run stands at iteration
\* M with M requests sent unless the empty streak reached 3 first; then it
\* stands at the iteration n <= M (n >= 3) that brought the streak to 3, with n
\* requests sent.  With M <= 3 it always stands at M.
C6_StopsAtMaxOrAtEmptyStreak ==
    (Cli /\ pc = "done" /\ AllTurnsContinue)
    => ( /\ Len(DrawOutcomes) = session.iteration
         /\ session.iteration <= session.max_iterations
         /\ StoppingLine \notin Range(log)
              => /\ session.iteration = session.max_iterations
                 /\ Last(log) # StoppingLine
                 /\ <<"Reached max iterations", session.max_iterations>> \in Range(log)
         /\ StoppingLine \in Range(log)
              => /\ session.iteration >= EmptyStreakLimit
                 /\ empty_streak = EmptyStreakLimit
         /\ session.max_iterations <= EmptyStreakLimit
              => session.iteration = session.max_iterations )

C6_Witness ==
    /\ Cli /\ pc = "done" /\ AllTurnsContinue
    /\ session.max_iterations > EmptyStreakLimit
    /\ session.iteration = session.max_iterations
    /\ \E i \in 1..Len(DrawOutcomes) : ContentFree(ParsedOf(DrawOutcomes[i]))
    /\ \E i \in 1..Len(DrawOutcomes) : ~ContentFree(ParsedOf(DrawOutcomes[i]))

\* C7: when the turns 1..n each added a new layer that passed validation and
\* only turn n returned done, the run terminates after turn n: no request
\* follows, the iteration counter is n, the canvas holds exactly layer-1 ..
\* layer-n in order, and the final document holds the markup of each of them.
Contains(doc, part) ==
    \E i \in 1..(Len(doc) - Len(part) + 1) : SubSeq(doc, i, i + Len(part) - 1) = part

LayersThenDone ==
    LET d == DrawOutcomes
    IN  /\ Len(d) >= 1
        /\ \A i \in 1..Len(d) :
             /\ d[i].ok
             /\ ParsedOf(d[i]).svg_elements # << >>
             /\ Removing(i) \notin Range(log)
             /\ ParsedOf(d[i]).status = (IF i = Len(d) THEN "done" ELSE "continue")

C7_DoneAfterLayers ==
    (Cli /\ BetweenTurns /\ LayersThenDone)
    => LET n == Len(DrawOutcomes)
       IN  /\ Terminating
           /\ session.iteration = n
           /\ Last(sent).iteration = n
           /\ [i \in 1..Len(canvas.layers) |-> canvas.layers[i].id]
                = [i \in 1..n |-> i]
           /\ \A i \in 1..n :
                canvas.layers[i].content = ParsedOf(DrawOutcomes[i]).svg_elements
           /\ pc = "done"
                => /\ FinalFile("svg") \in DOMAIN files
                   /\ files[FinalFile("svg")] = svg_file(to_svg(canvas))
                   /\ \A i \in 1..n :
                        Contains(files[FinalFile("svg")].data,
                                 <<GroupOpen(i)>>
                                   \o ParsedOf(DrawOutcomes[i]).svg_elements
                                   \o <<Close("g")>>)

C7_Witness ==
    /\ Cli /\ pc = "done" /\ LayersThenDone
    /\ Len(DrawOutcomes) = 3
    /\ session.max_iterations > 3

\* C8: each cumulative token counter is the sum of its per-response value over
\* all the responses received so far, the planning response included; no
\* counter ever decreases.
Received(counter) ==
    Sum([i \in 1..Len(replies) |->
           IF replies[i].ok THEN replies[i].response[counter] ELSE 0])

C8_TokenCountersAreSums ==
    /\ []( Cli => /\ session.total_input_tokens = Received("input_tokens")
                  /\ session.total_output_tokens = Received("output_tokens")
                  /\ session.total_thinking_tokens = Received("thinking_tokens")
                  /\ session.total_cache_read_tokens = Received("cache_read_tokens")
                  /\ session.total_cache_creation_tokens
                       = Received("cache_creation_tokens") )
    /\ [][ /\ session'.total_input_tokens >= session.total_input_tokens
           /\ session'.total_output_tokens >= session.total_output_tokens
           /\ session'.total_thinking_tokens >= session.total_thinking_tokens
           /\ session'.total_cache_read_tokens >= session.total_cache_read_tokens
           /\ session'.total_cache_creation_tokens
                >= session.total_cache_creation_tokens ]_vars

C8_Witness ==
    /\ Cli /\ pc = "done"
    /\ Len(replies) >= 4 /\ replies[1].ok
    /\ session.total_input_tokens > session.total_output_tokens
    /\ session.total_output_tokens > 0
    /\ session.total_thinking_tokens > session.total_input_tokens
    /\ session.total_cache_read_tokens > 0
    /\ session.total_cache_creation_tokens > 0

\* C9: a provider failure on the request of a drawing iteration ends the run:
\* the error is logged, the canvas is as before the request, no request is
\* sent afterwards, and the termination step persists the final document
\* built from the canvas as it stands.
ProviderFailed == Len(replies') = Len(replies) + 1 /\ ~Last(replies').ok

C9_ProviderFailureIsFatal ==
    /\ [][ (Cli /\ pc = "request" /\ ProviderFailed)
           => ( /\ pc' = "final"
                /\ log' = Append(log, ProviderErrorLine)
                /\ canvas' = canvas
                /\ session' = session ) ]_vars
    /\ [][ (Cli /\ Terminating) => (sent' = sent /\ canvas' = canvas) ]_vars
    /\ [][ (Cli /\ pc = "final")
           => ( /\ pc' = "done"
                /\ files'[FinalFile("svg")] = svg_file(to_svg(canvas))
                /\ result' = Some(FinalFile("svg")) ) ]_vars

C9_Witness ==
    /\ Cli /\ pc = "done"
    /\ replies # << >> /\ ~Last(replies).ok /\ Last(sent).iteration = 2
    /\ ProviderErrorLine \in Range(log)
    /\ Len(canvas.layers) = 1
    /\ files[FinalFile("svg")] = svg_file(to_svg(canvas))

\* C10: when the preview render fails at the start of a drawing iteration the
\* failure is logged and the run terminates: no request is sent in that
\* iteration or afterwards and the canvas is not changed.
C10_PreviewFailureIsFatal ==
    /\ [][ (Cli /\ pc = "loop" /\ LoopCondition(session) /\ ~Renders(to_svg(canvas)))
           => ( /\ pc' = "final"
                /\ Last(log') = PreviewErrorLine
                /\ sent' = sent
                /\ canvas' = canvas ) ]_vars
    /\ [][ (Cli /\ Terminating)
           => (sent' = sent /\ canvas' = canvas /\ pc' = "done") ]_vars

C10_Witness ==
    /\ Cli /\ pc = "done"
    /\ PreviewErrorLine \in Range(log)
    /\ session.iteration = 3
    /\ sent # << >> /\ Last(sent).iteration = 2
    /\ session.max_iterations > 3


\* C11: every way the loop ends (artist done, max iterations, empty streak,
\* provider failure, preview failure) leads to the same final steps: the
\* canvas as it stands is serialized and written as final.svg, the footer of
\* the log is written and the path of final.svg is returned.
TerminationReasons ==
    {"Artist signaled done.", "Reached max iterations", StoppingLine[1],
     ProviderErrorLine[1], PreviewErrorLine[1]}

Footer == log_session_end(session)

C11_TerminationPathsConverge ==
    /\ [][ (Cli /\ log' # log /\ Last(log')[1] \in TerminationReasons)
           => pc' = "final" ]_vars
    /\ []( (Cli /\ pc = "final") => Last(log)[1] \in TerminationReasons )
    /\ [][ (Cli /\ pc = "final")
           => ( /\ pc' = "done"
                /\ canvas' = canvas
                /\ files'[FinalFile("svg")] = svg_file(to_svg(canvas))
                /\ SubSeq(log', Len(log') - 1, Len(log')) = Footer
                /\ result' = Some(FinalFile("svg")) ) ]_vars
    /\ []( (Cli /\ pc = "done")
           => ( /\ result = Some(FinalFile("svg"))
                /\ files[FinalFile("svg")] = svg_file(to_svg(canvas))
                /\ SubSeq(log, Len(log) - 1, Len(log)) = Footer ) )
    /\ []( (Cli /\ pc # "done")
           => (result = None /\ Line("== Session complete") \notin Range(log)) )

C11_Witness ==
    /\ Cli /\ pc = "done"
    /\ PreviewErrorLine \in Range(log)
    /\ Line("WARNING: Could not save final PNG") \in Range(log)
    /\ FinalFile("png") \notin DOMAIN files
    /\ files[FinalFile("svg")] = svg_file(to_svg(canvas))
    /\ result = Some(FinalFile("svg"))
    /\ Len(canvas.layers) = 2

\* C12 as stated: after a failure of the planning phase (its preview render
\* or its request) notes_history is empty, the canvas is unchanged, and the
\* request of iteration 1 is still sent.
PlanningFailedLine == Line("WARNING: Planning phase failed")
PlanningFailed == PlanningFailedLine \in Range(log)
PlanRequestSent == sent # << >> /\ sent[1].iteration = 0
FirstRequestSent == \E i \in 1..Len(sent) : sent[i].iteration = 1

C12_PlanningFailureThenFirstRequest ==
    (Cli /\ PlanningFailed /\ pc \in {"apply", "add", "check", "final", "done"})
    => FirstRequestSent

\* C12 amended: a failure of the planning phase logs a warning, leaves
\* notes_history empty and the canvas unchanged, and the run goes on to
\* iteration 1.  After a failed planning request the request of iteration 1 is
\* sent; after a failed planning preview render the preview of iteration 1
\* fails on the same canvas and the run ends with no request sent at all.
C12_PlanningFailureIsNotFatal ==
    /\ [][ (Cli /\ pc = "planning" /\ Last(log') = PlanningFailedLine)
           => ( /\ pc' = "loop"
                /\ session' = session
                /\ session'.notes_history = << >>
                /\ session'.iteration = 0
                /\ canvas' = canvas ) ]_vars
    /\ []( (Cli /\ PlanningFailed /\ pc \in {"apply", "add", "check", "final", "done"})
           => ( /\ session.iteration >= 1
                /\ <<"== Iteration", 1>> \in Range(log)
                /\ PlanRequestSent => ( /\ FirstRequestSent
                                        /\ ~replies[1].ok
                                        /\ sent[2].notes_history = << >> )
                /\ ~PlanRequestSent => ( /\ sent = << >>
                                         /\ session.iteration = 1
                                         /\ PreviewErrorLine \in Range(log)
                                         /\ ~Renders(to_svg(canvas)) ) ) )

C12_Witness ==
    /\ Cli /\ pc = "done"
    /\ PlanningFailed /\ PlanRequestSent
    /\ Len(sent) = 3
    /\ Len(canvas.layers) = 2
    /\ Len(session.notes_history) = 1

\* C13: the planning phase runs once and before every drawing iteration: at
\* most one request of iteration 0 is sent, it is the first request and asks
\* for thinking whatever the session says; the request of drawing iteration n
\* carries n and the session's thinking_enabled.
PlanningLine == Line("Planning phase")

C13_PlanningOnceAndFirst ==
    Cli => ( /\ \A i \in 1..Len(sent) :
                  sent[i].iteration = 0 => (i = 1 /\ sent[i].thinking_enabled)
             /\ \A i \in 1..Len(sent) :
                  sent[i].iteration # 0
                    => /\ sent[i].thinking_enabled = session.thinking_enabled
                       /\ sent[i].iteration
                            = i - (IF PlanRequestSent THEN 1 ELSE 0)
             /\ Cardinality({i \in 1..Len(log) : log[i] = PlanningLine})
                  = (IF pc = "planning" THEN 0 ELSE 1)
             /\ pc = "planning" => (sent = << >> /\ session.iteration = 0)
             /\ (sent # << >> /\ Renders(to_svg(SvgCanvas(canvas.background))))
                  => PlanRequestSent )

C13_Witness ==
    /\ Cli /\ pc = "done"
    /\ ~session.thinking_enabled
    /\ Len(sent) = 4
    /\ sent[1].iteration = 0 /\ sent[1].thinking_enabled
    /\ sent[4].iteration = 3 /\ ~sent[4].thinking_enabled


\* C14: notes_history only grows at its end: the planning note, when there is
\* one, is its first entry and carries the plan tag; every drawing response
\* with notes adds exactly those notes as one entry; a response without notes
\* adds nothing; no entry is removed, changed or moved.
RECURSIVE NotesOf(_)
NotesOf(outcomes) ==
    IF outcomes = << >> THEN << >>
    ELSE LET notes == ParsedOf(Head(outcomes)).notes
         IN  (IF Head(outcomes).ok /\ notes # << >> THEN <<notes>> ELSE << >>)
               \o NotesOf(Tail(outcomes))

PlanNote ==
    IF PlanRequestSent /\ replies # << >> /\ replies[1].ok
       /\ ParsedOf(replies[1]).notes # << >>
    THEN << <<Word("[Artistic Plan]"), Space>> \o ParsedOf(replies[1]).notes >>
    ELSE << >>

IsPrefix(a, b) == Len(a) <= Len(b) /\ SubSeq(b, 1, Len(a)) = a

C14_NotesAppendOnly ==
    /\ []( Cli => session.notes_history = PlanNote \o NotesOf(DrawOutcomes) )
    /\ [][ Cli => /\ IsPrefix(session.notes_history, session'.notes_history)
                  /\ Len(session'.notes_history) <= Len(session.notes_history) + 1
         ]_vars

C14_Witness ==
    /\ Cli /\ pc = "done"
    /\ Len(DrawOutcomes) = 4
    /\ Len(session.notes_history) = 3
    /\ session.notes_history[1] = <<Word("[Artistic Plan]"), Space, Word("plan")>>
    /\ session.notes_history[2] = <<Word("n2")>>
    /\ session.notes_history[3] = <<Word("n1")>>
    /\ Last(sent).notes_history = SubSeq(session.notes_history, 1, 2)

\* C15: a replace directive for a layer id that the canvas does not hold is
\* logged as a warning and skipped: layers and defs stay as they are, the new
\* markup of the turn is handled, the files of the turn are written and the
\* status is looked at; the run does not end because of it.
CannotReplace == "WARNING: Cannot replace"

\* the lines logged since the start of the current iteration
TurnLog ==
    LET at == {i \in 1..Len(log) : log[i][1] = "== Iteration"}
    IN  IF at = {} THEN << >>
        ELSE SubSeq(log, (CHOOSE i \in at : \A j \in at : j <= i) + 1, Len(log))

SkippedInTurn == \E i \in 1..Len(TurnLog) : TurnLog[i][1] = CannotReplace

C15_ReplaceOfAbsentLayerSkipped ==
    /\ [][ ( /\ Cli /\ pc = "apply"
             /\ parsed.replace_layer_id # None
             /\ parsed.replace_elements # None /\ parsed.replace_elements[1] # << >>
             /\ parsed.replace_layer_id[1] \notin Keys(canvas.layers) )
           => ( /\ canvas'.layers = canvas.layers
                /\ canvas'.defs = canvas.defs
                /\ canvas'.next_layer = canvas.next_layer
                /\ log' = Append(log, <<CannotReplace, parsed.replace_layer_id[1]>>)
                /\ pc' = "add" ) ]_vars
    /\ [][ (Cli /\ pc = "add" /\ SkippedInTurn)
           => ( /\ pc' = "check"
                /\ parsed.svg_elements # << >>
                     => <<"Added", canvas.next_layer>> \in Range(log')
                /\ parsed.svg_elements = << >> => empty_streak' = 0 ) ]_vars
    /\ [][ (Cli /\ pc = "check" /\ SkippedInTurn /\ ~ShouldStop(empty_streak))
           => ( /\ IterFile(session.iteration, "svg") \in DOMAIN files'
                /\ files'[IterFile(session.iteration, "svg")]
                     = svg_file(to_svg(canvas))
                /\ pc' = (IF parsed.status = "done" THEN "final" ELSE "loop") ) ]_vars

C15_Witness ==
    /\ Cli /\ pc = "request"
    /\ session.iteration = 3
    /\ <<CannotReplace, 1>> \in Range(log)
    /\ <<"Added", 1>> \in Range(log)
    /\ <<"Replaced", 1>> \in Range(log)
    /\ IterFile(1, "svg") \in DOMAIN files
    /\ Contains(files[IterFile(1, "svg")].data, <<GroupOpen(1)>>)

\* C16: when the content of a replace directive makes the canvas fail to
\* render, the replaced layer gets its previous content back in the same
\* turn, so after the replace step of a turn that changed nothing else the
\* canvas renders as it did at the preview of the turn.
C16_ReplaceRolledBack ==
    (Cli /\ pc = "add" /\ Last(log)[1] = "Replaced" /\ parsed.background = None)
    => Renders(to_svg(canvas))

\* C17 as stated: at the end of a drawing iteration the empty streak is the
\* number of most recent consecutive iterations in which neither a new layer
\* nor a replacement was applied to the canvas.
IterationLog(n) ==
    LET from == CHOOSE i \in 1..Len(log) : log[i] = <<"== Iteration", n>>
        later == {i \in 1..Len(log) : log[i] = <<"== Iteration", n + 1>>}
    IN  SubSeq(log, from + 1, IF later = {} THEN Len(log) ELSE Min(later) - 1)

RolledBackIn(n) ==
    \E i \in 1..Len(IterationLog(n)) :
        IterationLog(n)[i][1] = "WARNING: caused render error, removing"

AppliedIn(n) ==
    \E i \in 1..Len(IterationLog(n)) :
        \/ IterationLog(n)[i][1] = "Replaced"
        \/ IterationLog(n)[i][1] = "Added" /\ ~RolledBackIn(n)

\* how many of the iterations n, n-1, ... in a row applied nothing
RECURSIVE TrailingUnapplied(_)
TrailingUnapplied(n) ==
    IF n = 0 \/ AppliedIn(n) THEN 0 ELSE 1 + TrailingUnapplied(n - 1)

C17_StreakCountsUnappliedTurns ==
    (Cli /\ pc = "check") => empty_streak = TrailingUnapplied(session.iteration)

\* C17 amended: at the end of a drawing iteration whose response arrived the
\* empty streak is the number of most recent consecutive iterations whose
\* response either brought new markup that was rolled back, or brought
\* neither new markup nor a replace directive.  A replace directive without
\* new markup resets the streak also when the replacement was skipped; a
\* rolled back new layer counts as empty also when a replacement was applied
\* in the same turn.
EmptyTurn(n) ==
    LET p == ParsedOf(DrawOutcomes[n])
    IN  \/ p.svg_elements # << >> /\ RolledBackIn(n)
        \/ p.svg_elements = << >> /\ p.replace_layer_id = None

\* how many of the iterations n, n-1, ... in a row were empty turns
RECURSIVE TrailingEmpty(_)
TrailingEmpty(n) ==
    IF n = 0 \/ ~EmptyTurn(n) THEN 0 ELSE 1 + TrailingEmpty(n - 1)

C17_StreakCountsEmptyResponses ==
    (Cli /\ pc = "check") => empty_streak = TrailingEmpty(session.iteration)

C17_Witness ==
    /\ Cli /\ pc = "check"
    /\ session.iteration = 4
    /\ empty_streak = 1
    /\ RolledBackIn(4)
    /\ \E i \in 1..Len(IterationLog(3)) : IterationLog(3)[i][1] = CannotReplace
    /\ ~AppliedIn(3) /\ ~AppliedIn(2) /\ ~AppliedIn(1)

\* C18: a background directive of a drawing response is the background of
\* the canvas from the apply step of its turn on, also when the replacement
\* of the turn is skipped or its new layer is rolled back; nothing else
\* changes the background, the planning phase least of all.
C18_BackgroundUnconditional ==
    /\ []( (Cli /\ pc # "apply" /\ parsed.background # None)
           => canvas.background = parsed.background[1] )
    /\ [][ (Cli /\ pc = "apply")
           => canvas'.background = (IF parsed.background # None
                                    THEN parsed.background[1]
                                    ELSE canvas.background) ]_vars
    /\ [][ (Cli /\ pc # "apply") => canvas'.background = canvas.background ]_vars

C18_Witness ==
    /\ Cli /\ pc = "check"
    /\ RolledBackIn(session.iteration)
    /\ parsed.background = Some(<<Word("#111111")>>)
    /\ canvas.background = <<Word("#111111")>>
    /\ <<CannotReplace, 1>> \in Range(log)
    /\ Line("WARNING: Planning phase changed background") \in Range(log)

\* C19: replace_layer with a layer id that is not in the store raises
\* KeyError and leaves the store as it was: layers, defs, their order, the
\* background and the next layer id.
LayerIds == 0..canvas.next_layer
MarkupArgs == {<<Word("rect")>>, <<Space, Word("rect"), Space>>, << >>}
DefsArgs == {None, Some(<< >>), Some(<<Space>>),
             Some(<<Space, Word("grad2"), Space>>)}

C19_ReplaceAbsentRaises ==
    /\ [] \A layer_id \in LayerIds, svg_elements \in MarkupArgs, defs \in DefsArgs :
            layer_id \notin Keys(canvas.layers)
              => LET r == replace_layer(canvas, layer_id, svg_elements, defs)
                 IN  r.raised /\ r.canvas = canvas
    /\ [][ (mode = "mcp" /\ result' # None /\ result'[1][3] = "does not exist")
           => (canvas' = canvas /\ result'[1][2] \notin Keys(canvas.layers)) ]_vars

C19_Witness ==
    /\ mode = "mcp"
    /\ result = Raises("does not exist", 2)
    /\ Keys(canvas.layers) = {1}
    /\ Keys(canvas.defs) = {1}

\* C20: replace_layer with a layer id of the store puts the new markup under
\* that id at the same place in the layer order and changes no other layer;
\* given defs that are not blank, the defs entry of the id becomes them
\* (trimmed); given none, empty or blank defs, the id has no defs entry
\* afterwards.  The defs of the other layers stay.
Ids(d) == [i \in 1..Len(d) |-> d[i].id]

C20_ReplaceInPlace ==
    \A layer_id \in LayerIds, svg_elements \in MarkupArgs, defs \in DefsArgs :
        layer_id \in Keys(canvas.layers)
          => LET r == replace_layer(canvas, layer_id, svg_elements, defs)
                 blank == defs = None \/ strip(defs[1]) = << >>
             IN  /\ ~r.raised
                 /\ Ids(r.canvas.layers) = Ids(canvas.layers)
                 /\ \A i \in 1..Len(canvas.layers) :
                      r.canvas.layers[i].content
                        = (IF canvas.layers[i].id = layer_id THEN strip(svg_elements)
                           ELSE canvas.layers[i].content)
                 /\ r.canvas.background = canvas.background
                 /\ r.canvas.next_layer = canvas.next_layer
                 /\ Keys(r.canvas.defs) \ {layer_id} = Keys(canvas.defs) \ {layer_id}
                 /\ \A other \in Keys(canvas.defs) \ {layer_id} :
                      Get(r.canvas.defs, other) = Get(canvas.defs, other)
                 /\ blank => layer_id \notin Keys(r.canvas.defs)
                 /\ ~blank => /\ layer_id \in Keys(r.canvas.defs)
                              /\ Get(r.canvas.defs, layer_id) = strip(defs[1])

C20_Witness ==
    /\ mode = "mcp"
    /\ result = Returns("Replaced", 1)
    /\ Ids(canvas.layers) = <<1, 2>>
    /\ canvas.layers[1].content = <<Word("rect")>>
    /\ Contains(files[IterFile(1, "svg")].data, <<Open("defs")>>)
    /\ canvas.defs = << >>
    /\ files[IterFile(2, "svg")] = svg_file(to_svg(canvas))


\* C21: in every state of a canvas, whatever add_layer and replace_layer
\* calls, rollback deletions of the driver and rollbacks of the MCP tools came
\* before, every key of defs is a key of layers.
C21_DefsKeysAreLayerKeys == Keys(canvas.defs) \subseteq Keys(canvas.layers)

C21_Witness ==
    /\ mode = "mcp"
    /\ <<"ROLLED BACK", 2>> \in Range(log)
    /\ <<"ROLLED BACK replace", 1>> \in Range(log)
    /\ Keys(canvas.defs) = {1}
    /\ Keys(canvas.layers) = {1}

\* C22: in a run the layer order only grows at its end: the one removal is
\* the rollback of the layer added in the same iteration, and a layer that
\* outlived its iteration keeps its place until the run ends.
KeptIds ==
    LET at == {i \in 1..Len(log) : log[i][1] = "Added"
                                   /\ Removing(log[i][2]) \notin Range(log)}
        nth[k \in 1..Cardinality(at)] ==
            IF k = 1 THEN Min(at) ELSE Min({i \in at : i > nth[k - 1]})
    IN  [k \in 1..Cardinality(at) |-> log[nth[k]][2]]

C22_LayersOnlyRolledBack ==
    /\ []( Cli => Ids(canvas.layers) = KeptIds )
    /\ [][ Cli => /\ IsPrefix(Ids(canvas.layers), Ids(canvas'.layers))
                  /\ Len(canvas'.layers) <= Len(canvas.layers) + 1 ]_vars
    /\ []( Cli => \A n \in 1..session.iteration :
                    \A i \in 1..Len(IterationLog(n)) :
                      IterationLog(n)[i][1] = Removing(0)[1]
                        => <<"Added", IterationLog(n)[i][2]>>
                             \in Range(IterationLog(n)) )

C22_Witness ==
    /\ Cli /\ pc = "done"
    /\ Ids(canvas.layers) = <<1, 3>>
    /\ Removing(2) \in Range(log)
    /\ <<"Replaced", 1>> \in Range(log)
    /\ session.iteration = 4

\* C23: the document of to_svg starts with the background rectangle, then
\* holds one group per stored layer, tagged with the layer id, in insertion
\* order and after the rectangle (none for an empty store), and holds the
\* defs block exactly when some stored defs content is not empty.
Positions(doc, token) == {i \in 1..Len(doc) : doc[i] = token}
IsGroupOpen(token) == token.k = "open-id" /\ token.v = "g"

C23_DocumentOfCanvas ==
    LET doc == to_svg(canvas)
        rect_end == 3 + Len(canvas.background)
        groups == SelectSeq(doc, IsGroupOpen)
    IN  /\ SubSeq(doc, 1, 2) = <<Open("svg"), Open("rect")>>
        /\ SubSeq(doc, 3, rect_end - 1) = canvas.background
        /\ doc[rect_end] = Close("rect")
        /\ Cardinality(Positions(doc, Open("rect"))) = 1
        /\ [i \in 1..Len(groups) |-> groups[i].id] = Ids(canvas.layers)
        /\ Cardinality(Positions(doc, Close("g"))) = Len(canvas.layers)
        /\ \A i \in 1..Len(doc) : IsGroupOpen(doc[i]) => i > rect_end
        /\ \A i \in 1..Len(canvas.layers) :
             Contains(doc, <<GroupOpen(canvas.layers[i].id)>>
                             \o canvas.layers[i].content \o <<Close("g")>>)
        /\ canvas.layers = << >> => groups = << >>
        /\ (Open("defs") \in Range(doc))
             <=> (\E i \in 1..Len(canvas.defs) : canvas.defs[i].content # << >>)
        /\ Open("defs") \in Range(doc)
             => /\ doc[rect_end + 1] = Open("defs")
                /\ \A i \in 1..Len(canvas.defs) :
                     Contains(doc, canvas.defs[i].content)
        /\ Last(doc) = Close("svg")

C23_Witness ==
    /\ Cli /\ pc = "done"
    /\ Ids(canvas.layers) = <<2, 3>>
    /\ Keys(canvas.defs) = {3}
    /\ canvas.background = <<Word("#111111")>>
    /\ files[FinalFile("svg")].data = to_svg(canvas)

\* C24 as stated: a finished run has written the document of iteration n
\* under the name of iteration n, for every n from 1 to the final value of
\* the iteration counter.
C24_OneDocumentPerIteration ==
    (Cli /\ pc = "done")
    => \A n \in 1..session.iteration : IterFile(n, "svg") \in DOMAIN files

\* C24 amended: a finished run has written the document of iteration n under
\* the name of iteration n for every iteration before the last one, and for
\* the last one exactly when the run did not end in it by the empty-streak
\* stop, a provider failure or a preview failure.  The document is the
\* canvas as it stood at the end of the iteration and is not written again.
EndedBeforeSave ==
    \/ StoppingLine \in Range(log)
    \/ ProviderErrorLine \in Range(log)
    \/ PreviewErrorLine \in Range(log)

C24_DocumentPerCompletedIteration ==
    /\ []( (Cli /\ pc = "done")
           => /\ \A n \in 1..(session.iteration - 1) :
                   IterFile(n, "svg") \in DOMAIN files
              /\ (IterFile(session.iteration, "svg") \in DOMAIN files)
                   <=> ~EndedBeforeSave
              /\ \A n \in (session.iteration + 1)..MaxIterations :
                   IterFile(n, "svg") \notin DOMAIN files )
    /\ [][ (Cli /\ pc = "check" /\ pc' = "loop")
           => /\ IterFile(session.iteration, "svg") \in DOMAIN files'
              /\ files'[IterFile(session.iteration, "svg")]
                   = svg_file(to_svg(canvas)) ]_vars
    /\ [][ Cli => \A name \in DOMAIN files :
                    name \in DOMAIN files' /\ files'[name] = files[name] ]_vars

C24_Witness ==
    /\ Cli /\ pc = "done"
    /\ session.iteration = 4
    /\ StoppingLine \in Range(log)
    /\ {n \in 1..MaxIterations : IterFile(n, "svg") \in DOMAIN files} = {1, 2, 3}
    /\ {n \in 1..MaxIterations : IterFile(n, "png") \in DOMAIN files} = {1, 2, 3}

\* C25: a failure to write the serialized document, to render the raster or
\* to write the raster, for the files of a turn or the final files, does not
\* end the run: the function does not raise because of it.
C25_PersistenceFailureNotFatal ==
    ~(pc = "raised" /\ result # None /\ result[1][3] = "save_svg")

\* C26: a failure of a write of the SessionLogger does not abort the run: the
\* function does not raise because of it.
C26_LogWriteFailureNotFatal ==
    ~(pc = "raised" /\ result # None /\ result[1][3] = "SessionLogger.write")

\* C27: every failure the run handles leaves its line in the log, the log
\* only grows, and within one iteration no request, replacement or new layer
\* is attempted a second time.
IsRequestLine(l) == l[1] \in {"Model", ProviderErrorLine[1]}
IsReplaceLine(l) == l[1] \in {"Replaced", CannotReplace}
IsAddLine(l) == l[1] = "Added"
IsPreviewLine(l) == l = PreviewErrorLine
IntermediatePngLine == Line("WARNING: Could not save intermediate PNG")
FinalPngLine == Line("WARNING: Could not save final PNG")

C27_FailuresLoggedNothingRetried ==
    /\ []( (Cli /\ pc # "planning"
                /\ (sent = << >> \/ (PlanRequestSent /\ ~replies[1].ok)))
           => PlanningFailed )
    /\ []( (Cli /\ \E i \in 1..Len(DrawOutcomes) : ~DrawOutcomes[i].ok)
           => ProviderErrorLine \in Range(log) )
    /\ [][ (Cli /\ pc = "loop" /\ LoopCondition(session) /\ ~Renders(to_svg(canvas)))
           => Last(log') = PreviewErrorLine ]_vars
    /\ [][ ( /\ Cli /\ pc = "apply"
             /\ parsed.replace_layer_id # None
             /\ parsed.replace_elements # None /\ parsed.replace_elements[1] # << >>
             /\ parsed.replace_layer_id[1] \notin Keys(canvas.layers) )
           => Last(log') = <<CannotReplace, parsed.replace_layer_id[1]>> ]_vars
    /\ [][ ( /\ Cli /\ pc = "add" /\ parsed.svg_elements # << >>
             /\ ~Renders(to_svg(add_layer(canvas, parsed.svg_elements,
                                          DefsArg(parsed)).canvas)) )
           => Last(log') = Removing(canvas.next_layer) ]_vars
    /\ [][ ( /\ Cli /\ pc = "check" /\ ~ShouldStop(empty_streak)
             /\ ~Renders(to_svg(canvas)) )
           => IntermediatePngLine \in Range(SubSeq(log', Len(log) + 1, Len(log'))) ]_vars
    /\ [][ (Cli /\ pc = "final" /\ ~Renders(to_svg(canvas)))
           => FinalPngLine \in Range(SubSeq(log', Len(log) + 1, Len(log'))) ]_vars
    /\ [][ Cli => IsPrefix(log, log') ]_vars
    /\ []( Cli => \A n \in 1..session.iteration :
                    /\ Len(SelectSeq(IterationLog(n), IsRequestLine)) <= 1
                    /\ Len(SelectSeq(IterationLog(n), IsReplaceLine)) <= 1
                    /\ Len(SelectSeq(IterationLog(n), IsAddLine)) <= 1
                    /\ Len(SelectSeq(IterationLog(n), IsPreviewLine)) <= 1 )
    /\ []( Cli => Len(DrawOutcomes) <= session.iteration )

C27_Witness ==
    /\ Cli /\ pc = "done"
    /\ PlanningFailed
    /\ <<CannotReplace, 1>> \in Range(log)
    /\ Removing(2) \in Range(log)
    /\ IntermediatePngLine \in Range(log)
    /\ PreviewErrorLine \in Range(log)
    /\ FinalPngLine \in Range(log)

\* C28: the notes carried by the request of iteration n are a prefix of the
\* notes carried by every later request, and a request that was sent keeps
\* the notes it had when it was built, whatever the session appends later.
C28_RequestNotesPrefixStable ==
    /\ []( Cli => \A i \in 1..Len(sent) : \A j \in i..Len(sent) :
                    IsPrefix(sent[i].notes_history, sent[j].notes_history) )
    /\ []( Cli => \A i \in 1..Len(sent) :
                    sent[i].notes_history
                      = (IF sent[i].iteration = 0 THEN << >>
                         ELSE PlanNote
                                \o NotesOf(SubSeq(DrawOutcomes, 1,
                                                  sent[i].iteration - 1))) )
    /\ [][ Cli => IsPrefix(sent, sent') ]_vars

C28_Witness ==
    /\ Cli /\ pc = "apply"
    /\ Len(sent) = 4
    /\ Len(sent[2].notes_history) = 0
    /\ Len(sent[3].notes_history) = 1
    /\ Len(sent[4].notes_history) = 2
    /\ Len(session.notes_history) = 3

\* C29: parse_response gives a result for every text; the status is done
\* exactly when the content of the first status block, trimmed, is done,
\* complete or finished in any case, and continue otherwise; a text without
\* any tag gives the defaults.
Parsing == mode = "parser"
Text == replies[1].response.raw_text
DoneSpellings == {"done", "DONE", "Done", "complete", "Complete", "finished",
                  "FINISHED"}

FirstStatusBody ==
    LET opens == Positions(Text, Open("status"))
        closes == Positions(Text, Close("status"))
    IN  IF opens = {} \/ {j \in closes : j > Min(opens)} = {} THEN None
        ELSE Some(SubSeq(Text, Min(opens) + 1,
                         Min({j \in closes : j > Min(opens)}) - 1))

ExpectedStatus ==
    IF /\ FirstStatusBody # None
       /\ \E w \in DoneSpellings :
            \E before, after \in {<< >>, <<Space>>, <<Space, Space>>} :
              FirstStatusBody[1] = before \o <<Word(w)>> \o after
    THEN "done" ELSE "continue"

C29_StatusNormalized ==
    (Parsing /\ pc = "parsed")
    => /\ parsed.status = ExpectedStatus
       /\ DOMAIN parsed = DOMAIN ParsedResponse
       /\ (\A i \in 1..Len(Text) : Text[i].k \in {"word", "ws"})
            => parsed = ParsedResponse
       /\ (\A i \in 1..Len(Text) : Text[i].v # "status") => parsed.status = "continue"

C29_Witness ==
    /\ Parsing /\ pc = "parsed"
    /\ Text = Tagged("status", <<Space, Word("DONE"), Space>>)
                \o Tagged("status", <<Word("maybe")>>)
                \o Replace(1, << >>)
    /\ parsed.status = "done"

\* C30 as stated: for every text, a replace-layer block with id X gives
\* replace_layer_id X and non-empty replace_elements, and a text without such
\* a block gives None for both.
FirstReplaceBlock ==
    LET opens == {i \in 1..Len(Text) :
                    Text[i].k = "open-id" /\ Text[i].v = "replace-layer"}
        closes == Positions(Text, Close("replace-layer"))
    IN  IF opens = {} \/ {j \in closes : j > Min(opens)} = {} THEN None
        ELSE Some([id |-> Text[Min(opens)].id,
                   body |-> SubSeq(Text, Min(opens) + 1,
                                   Min({j \in closes : j > Min(opens)}) - 1)])

C30_ReplaceBlockGivesIdAndContent ==
    (Parsing /\ pc = "parsed")
    => IF FirstReplaceBlock # None
       THEN /\ parsed.replace_layer_id = Some(FirstReplaceBlock[1].id)
            /\ parsed.replace_elements # None
            /\ parsed.replace_elements[1] # << >>
       ELSE parsed.replace_layer_id = None /\ parsed.replace_elements = None

\* C30 amended: the first replace-layer block, with id X, gives
\* replace_layer_id X and replace_elements equal to the trimmed content of
\* the block, which is the empty string when the block is empty or blank; a
\* text without such a block gives None for both; the two fields are never
\* one None and one not.
C30_ReplaceBlockGivesIdAndTrimmedContent ==
    (Parsing /\ pc = "parsed")
    => /\ IF FirstReplaceBlock # None
          THEN /\ parsed.replace_layer_id = Some(FirstReplaceBlock[1].id)
               /\ parsed.replace_elements = Some(strip(FirstReplaceBlock[1].body))
               /\ (parsed.replace_elements[1] = << >>)
                    <=> (\A i \in 1..Len(FirstReplaceBlock[1].body) :
                           FirstReplaceBlock[1].body[i] = Space)
          ELSE parsed.replace_layer_id = None /\ parsed.replace_elements = None
       /\ (parsed.replace_layer_id = None) <=> (parsed.replace_elements = None)

C30_Witness ==
    /\ Parsing /\ pc = "parsed"
    /\ Text = Replace(2, <<Space>>) \o Replace(1, <<Word("rect")>>)
    /\ parsed.replace_layer_id = Some(2)
    /\ parsed.replace_elements = Some(<< >>)

(***************************************************************************)
(* The MCP server: sessions, rollbacks, the finished flag.                 *)
(***************************************************************************)
Mcp == mode = "mcp"
ToolCalled == calls' # calls
Active == Mcp /\ _session # None
StatementFile == <<"artist-statement", 0, "txt">>
\* finish_drawing has returned for the session: the last thing it saves is there
FinishSucceeded ==
    /\ Active /\ _session[1].finished
    /\ FinalFile("png") \in DOMAIN files
\* the step is a create_canvas call: a fresh session and output directory
SessionCreated == _session' = Some(Session) /\ files' = NoFiles
RolledBackMessage == "caused a render error and was rolled back"

\* C31: once finish_drawing has succeeded, every tool call other than
\* create_canvas leaves the canvas, the iteration counter and the finished
\* flag as they are; the modifying tools and finish_drawing raise "Drawing
\* is finished" and change nothing at all, and view_canvas still succeeds
\* since the canvas renders.
C31_FinishedSessionIsReadOnly ==
    /\ [](FinishSucceeded => Renders(to_svg(canvas)))
    /\ [][ (FinishSucceeded /\ ToolCalled /\ ~SessionCreated)
             => /\ canvas' = canvas
                /\ _session' # None
                /\ _session'[1].iteration = _session[1].iteration
                /\ _session'[1].finished
                /\ result' \in {Raises("Drawing is finished", 0),
                                 Returns("Canvas (Drawing is finished)", 0),
                                 Returns("Artist statement saved", 0)}
                /\ result' = Raises("Drawing is finished", 0)
                     => UNCHANGED <<log, files, _session>>
                /\ result' = Returns("Canvas (Drawing is finished)", 0)
                     => UNCHANGED <<log, files, _session>> ]_vars

C31_Witness ==
    /\ FinishSucceeded
    /\ result = Raises("Drawing is finished", 0)
    /\ Len(canvas.layers) = 1
    /\ Last(log) = <<"Iterations", 1>>

\* C32: an add_layer call whose validation render fails raises, and leaves
\* layers, defs, background, iteration counter and files as they were before
\* the call (the layer id it had issued is spent); a call that succeeds has
\* the layer appended under the id issued, a canvas that renders, and an
\* iteration counter greater by exactly one.
C32_AddLayerValidatedOrRolledBack ==
    [][ (Mcp /\ ToolCalled /\ Len(log') > Len(log))
         => /\ Last(log')[1] = "ROLLED BACK"
                 => /\ result' = Raises(RolledBackMessage, canvas.next_layer)
                    /\ canvas'.layers = canvas.layers
                    /\ canvas'.defs = canvas.defs
                    /\ canvas'.background = canvas.background
                    /\ canvas'.next_layer = canvas.next_layer + 1
                    /\ _session'[1].iteration = _session[1].iteration
                    /\ _session'[1].finished = _session[1].finished
                    /\ files' = files
            /\ Last(log')[1] = "Added"
                 => /\ result' = Returns("Added", canvas.next_layer)
                    /\ Ids(canvas'.layers) = Append(Ids(canvas.layers), canvas.next_layer)
                    /\ SubSeq(canvas'.layers, 1, Len(canvas.layers)) = canvas.layers
                    /\ Renders(to_svg(canvas'))
                    /\ _session'[1].iteration = _session[1].iteration + 1 ]_vars

C32_Witness ==
    /\ Active
    /\ result = Raises(RolledBackMessage, 2)
    /\ Last(log) = <<"ROLLED BACK", 2>>
    /\ _session[1].iteration = 1
    /\ Ids(canvas.layers) = <<1>>
    /\ Ids(canvas.defs) = <<1>>
    /\ canvas.next_layer = 3

\* C33 as stated: a tool call before create_canvas raises "No active
\* session" and changes no state, and while the session exists but
\* finish_drawing has not succeeded, save_artist_statement raises and
\* saves nothing.
C33_PreconditionsRejectCalls ==
    [][ (Mcp /\ ToolCalled)
         => /\ (_session = None /\ ~SessionCreated)
                 => /\ result' = Raises("No active session", 0)
                    /\ UNCHANGED <<canvas, log, files, _session>>
            /\ result' = Raises("Drawing is not finished yet", 0)
                 => UNCHANGED <<canvas, log, files, _session>>
            /\ (Active /\ ~FinishSucceeded)
                 => /\ result' # Returns("Artist statement saved", 0)
                    /\ (StatementFile \in DOMAIN files'
                          => StatementFile \in DOMAIN files) ]_vars

\* C34 as stated: in every state where the session is marked finished,
\* final.svg and final.png have both been saved.
C34_FinishedWithFinalOutputs ==
    (Active /\ _session[1].finished)
    => /\ FinalFile("svg") \in DOMAIN files
       /\ FinalFile("png") \in DOMAIN files

(***************************************************************************)
(* Termination and the termination reason.                                 *)
(***************************************************************************)
PlanningRequests == {i \in 1..Len(sent) : sent[i].iteration = 0}
DrawingRequests == {i \in 1..Len(sent) : sent[i].iteration >= 1}

\* C35: every run in which each provider call and each render call returns
\* reaches termination, after at most one planning request and at most
\* max_iterations drawing requests, one per iteration counted; the iteration
\* counter never exceeds max_iterations and never decreases.
C35_RunTerminates ==
    /\ <>(pc = "done")
    /\ [](/\ session.iteration <= session.max_iterations
          /\ Cardinality(PlanningRequests) <= 1
          /\ Cardinality(DrawingRequests) <= session.iteration)
    /\ [][ /\ session'.iteration >= session.iteration
           /\ session'.max_iterations = session.max_iterations ]_vars

C35_Witness ==
    /\ Cli /\ pc = "done"
    /\ session.iteration = MaxRunIterations
    /\ session.max_iterations = MaxRunIterations
    /\ Cardinality(PlanningRequests) = 1
    /\ Cardinality(DrawingRequests) = MaxRunIterations
    /\ <<"Reached max iterations", MaxRunIterations>> \in Range(log)

ReasonLines == {i \in 1..Len(log) : log[i][1] \in TerminationReasons}
DoneLine == Line("Artist signaled done.")
LastOutcome == DrawOutcomes[Len(DrawOutcomes)]

\* C36: a completed run has logged exactly one termination reason; a run
\* whose last turn brings the empty streak to 3 ends with the empty-streak
\* reason whatever the status of the turn, and a run whose last turn has
\* status done and a smaller streak ends with the done reason, on iteration
\* max_iterations too, where "Reached max iterations" is not logged.
C36_OneTerminationReason ==
    (Cli /\ pc = "done")
    => /\ Cardinality(ReasonLines) = 1
       /\ (DrawOutcomes # << >> /\ LastOutcome.ok
             /\ PreviewErrorLine \notin Range(log))
            => /\ empty_streak >= EmptyStreakLimit
                    => StoppingLine \in Range(log)
               /\ (ParsedOf(LastOutcome).status = "done"
                     /\ empty_streak < EmptyStreakLimit)
                    => DoneLine \in Range(log)

C36_Witness ==
    /\ Cli /\ pc = "done"
    /\ DrawOutcomes # << >>
    /\ LastOutcome.ok
    /\ ParsedOf(LastOutcome).status = "done"
    /\ empty_streak = EmptyStreakLimit
    /\ session.iteration = session.max_iterations
    /\ StoppingLine \in Range(log)
    /\ DoneLine \notin Range(log)

\* C37 as stated: a replace_layer call whose validation render fails raises
\* and leaves the canvas exactly as it was before the call (the same layers
\* in the same order, the same document), with the iteration counter
\* unchanged; a call for a layer id that does not exist
\* raises and leaves canvas, iteration counter and files unchanged.
C37_ReplaceAllOrNothing ==
    [][ (Mcp /\ ToolCalled)
         => /\ (Len(log') > Len(log) /\ Last(log')[1] = "ROLLED BACK replace")
                 => /\ result' = Raises(RolledBackMessage, Last(log')[2])
                    /\ canvas'.layers = canvas.layers
                    /\ to_svg(canvas') = to_svg(canvas)
                    /\ _session'[1].iteration = _session[1].iteration
            /\ result'[1][3] = "does not exist"
                 => /\ result'[1][2] \notin Keys(canvas.layers)
                    /\ canvas' = canvas
                    /\ _session'[1].iteration = _session[1].iteration
                    /\ UNCHANGED <<log, files>> ]_vars

AddedLines == {i \in 1..Len(log) : log[i][1] = "Added"}
AddRollbacks == {i \in 1..Len(log) : log[i][1] = "ROLLED BACK"}

\* C38: between the tool calls of an active session, session.iteration
\* equals the number of layers in the canvas and the number of add_layer
\* calls that succeeded since create_canvas; the highest layer id issued is
\* greater than session.iteration by the number of add_layer calls rolled
\* back.
C38_IterationCountsLayers ==
    Active
    => /\ _session[1].iteration = Len(canvas.layers)
       /\ _session[1].iteration = Cardinality(AddedLines)
       /\ canvas.next_layer - 1 = _session[1].iteration + Cardinality(AddRollbacks)

C38_Witness ==
    /\ Active
    /\ _session[1].iteration = 2
    /\ Ids(canvas.layers) = <<1, 3>>
    /\ canvas.next_layer = 4
    /\ Cardinality(AddedLines) = 2
    /\ result = Returns("Replaced", 1)

\* C39 as stated: in every drawing request of the run, the note that
\* format_notes heads "Iteration k notes" is the note the model produced in
\* drawing iteration k.
C39_NoteLabelsAreIterations ==
    Cli
    => \A r \in DrawingRequests :
         \A n \in 1..Len(format_notes(sent[r])) :
           LET k == format_notes(sent[r])[n].iteration
           IN  /\ k < sent[r].iteration
               /\ DrawOutcomes[k].ok
               /\ format_notes(sent[r])[n].note = ParsedOf(DrawOutcomes[k]).notes

\* C40: in the driver, a step that applies the background and the replace
\* directive adds no defs entry, and a successful replacement leaves the
\* replaced layer without a defs entry and the other entries as they were;
\* a step that handles the new markup stores the defs of the response only
\* under the id of the layer it adds, and stores nothing when the response
\* has no new markup or the layer is rolled back; no other step touches
\* the defs.
C40_DefsOnlyWithNewLayer ==
    [][ Cli
         => /\ pc = "apply"
                 => /\ Keys(canvas'.defs) \subseteq Keys(canvas.defs)
                    /\ \A k \in Keys(canvas'.defs) :
                         Get(canvas'.defs, k) = Get(canvas.defs, k)
                    /\ (Len(log') > Len(log) /\ Last(log')[1] = "Replaced")
                         => /\ parsed.replace_layer_id[1] \in Keys(canvas'.layers)
                            /\ parsed.replace_layer_id[1] \notin Keys(canvas'.defs)
                            /\ Keys(canvas'.defs)
                                 = Keys(canvas.defs) \ {parsed.replace_layer_id[1]}
            /\ pc = "add"
                 => /\ parsed.svg_elements = << >> => canvas'.defs = canvas.defs
                    /\ \A k \in Keys(canvas.defs) :
                         /\ k \in Keys(canvas'.defs)
                         /\ Get(canvas'.defs, k) = Get(canvas.defs, k)
                    /\ \A k \in Keys(canvas'.defs) \ Keys(canvas.defs) :
                         /\ k = canvas.next_layer
                         /\ k \in Keys(canvas'.layers)
                         /\ Get(canvas'.defs, k) = parsed.defs_elements
            /\ pc \notin {"apply", "add"} => canvas'.defs = canvas.defs ]_vars

C40_Witness ==
    /\ Cli /\ pc = "add"
    /\ Last(log) = <<"Replaced", 1>>
    /\ parsed.defs_elements = <<Word("grad2")>>
    /\ parsed.svg_elements = << >>
    /\ Ids(canvas.layers) = <<1>>
    /\ canvas.defs = << >>
    /\ Contains(files[IterFile(1, "svg")].data, <<Word("grad")>>)

====
